---- MODULE Spec2Model ----
(***************************************************************************)
(* Model of the AI Career Roadmap Generator (src/app.py): the flexible     *)
(* duration parser FlexibleRoadmapGenerator._parse_time_input and the      *)
(* tolerant JSON extraction FlexibleRoadmapGenerator._parse_json_safely.   *)
(*                                                                         *)
(* A Python str is modelled as a sequence of one-character strings, so     *)
(* that str.find, str.strip, str.startswith, slicing and the regular       *)
(* expression are computed character by character as the library does.     *)
(***************************************************************************)
EXTENDS Integers, Sequences, FiniteSets, TLC

VARIABLES
    time_str,        \* argument of _parse_time_input
    parse_pc,        \* "call" before the call, then "returned" or "raised"
    total_hours,     \* value returned by _parse_time_input (0 while none)
    parse_exc,       \* exception that left _parse_time_input ("none" if none)
    parse_path,      \* return statement taken: "default", "digits", "matched", "unmatched"
    key_idx,         \* position in conversions of the key the loop stopped at (0: none)
    response_content,\* first argument of _parse_json_safely
    fallback,        \* second argument of _parse_json_safely (JNull: None, not supplied)
    json_pc,         \* "call" before the call, then "returned" or "raised"
    content,         \* local "content" after the code-block step
    json_text,       \* local "content" handed to json.loads
    json_result,     \* value returned by _parse_json_safely
    json_exc,        \* exception that left _parse_json_safely ("none" if none)
    GROQ_API_KEY,    \* the environment variable when the process starts
    settings_cache,  \* lru_cache of get_settings: the results cached so far
    loop_owner,      \* request whose handler the event loop is running (0: none)
    request,         \* per request: the body of the POST
    req_pc,          \* per request: position in its handling
    generator,       \* per request: a FlexibleRoadmapGenerator was constructed
    req_hours,       \* per request: local total_hours of generate_complete_roadmap
    attempt,         \* per request: loop variable of _safe_llm_call
    invocations,     \* per request: calls of self.llm.invoke made so far
    in_flight,       \* per request: calls of self.llm.invoke not yet ended
    slept,           \* per request: the arguments of time.sleep, in order
    answers,         \* per request: how each call of self.llm.invoke ended
    llm_content,     \* per request: value returned by _safe_llm_call
    complete_roadmap,\* per request: value returned by generate_complete_roadmap
    http_status,     \* per request: status of the response (0 while none)
    response,        \* per request: the RoadmapResponse sent (JNull if none)
    health_pc,       \* the GET /health request: "idle" (none), "pending", "done"
    fb_time_input,   \* local time_input of a generate_complete_roadmap that builds its fallback
    fb_pc,           \* that call: "idle" (none), "call", "parsed", "built"
    fb_hours,        \* its local total_hours, in binary digits
    fb_numbers       \* the numbers of its fallback dict (<<>> while not built)

parse_vars == <<time_str, parse_pc, total_hours, parse_exc, parse_path, key_idx>>

json_vars == <<response_content, fallback, json_pc, content, json_text, json_result, json_exc>>

server_vars ==
    <<GROQ_API_KEY, settings_cache, loop_owner, request, req_pc, generator, req_hours,
      attempt, invocations, in_flight, slept, answers, llm_content, complete_roadmap,
      http_status, response, health_pc>>

fallback_vars == <<fb_time_input, fb_pc, fb_hours, fb_numbers>>

vars == <<parse_vars, json_vars, server_vars, fallback_vars>>

-----------------------------------------------------------------------------
(* Bounds of the model *)

\* longest duration string drawn exhaustively from TimeAlphabet
MaxTimeLen == 4

\* largest number of RawTokens concatenated into a raw LLM text
MaxRawTokens == 3

\* container nesting at which json.loads raises RecursionError. CPython takes
\* it from the interpreter's recursion limit (1000 by default, less the frames
\* already on the stack); it is scaled down here, and stays above the nesting
\* of every text built from RawTokens.
RecursionLimit == 6

\* number of POST /generate-roadmap requests in a behaviour
NumRequests == 2

-----------------------------------------------------------------------------
(* Characters and the str methods the program uses *)

Digits == {"0", "1", "2", "3", "4", "5", "6", "7", "8", "9"}

DigitSeq == <<"0", "1", "2", "3", "4", "5", "6", "7", "8", "9">>

DigitVal(c) == (CHOOSE i \in 1..10 : DigitSeq[i] = c) - 1

LowerSeq == <<"a", "b", "c", "d", "e", "f", "g", "h", "i", "j", "k", "l", "m",
              "n", "o", "p", "q", "r", "s", "t", "u", "v", "w", "x", "y", "z">>

UpperSeq == <<"A", "B", "C", "D", "E", "F", "G", "H", "I", "J", "K", "L", "M",
              "N", "O", "P", "Q", "R", "S", "T", "U", "V", "W", "X", "Y", "Z">>

LowerLetters == {LowerSeq[i] : i \in 1..26}

UpperLetters == {UpperSeq[i] : i \in 1..26}

Whitespace == {" ", "\t", "\n", "\r"}

IsDigit(c) == c \in Digits

IsSpace(c) == c \in Whitespace

\* str.lower()
StrLower(s) ==
    [i \in 1..Len(s) |->
        IF s[i] \in UpperLetters
        THEN LowerSeq[CHOOSE k \in 1..26 : UpperSeq[k] = s[i]]
        ELSE s[i]]

\* str.strip(): drop leading and trailing whitespace
StrStrip(s) ==
    IF \A i \in 1..Len(s) : IsSpace(s[i])
    THEN <<>>
    ELSE LET a == CHOOSE i \in 1..Len(s) :
                     ~IsSpace(s[i]) /\ \A j \in 1..(i-1) : IsSpace(s[j])
             b == CHOOSE i \in 1..Len(s) :
                     ~IsSpace(s[i]) /\ \A j \in (i+1)..Len(s) : IsSpace(s[j])
         IN  SubSeq(s, a, b)

\* str.startswith(prefix)
StartsWith(s, prefix) ==
    /\ Len(prefix) <= Len(s)
    /\ \A i \in 1..Len(prefix) : s[i] = prefix[i]

\* greedy quantifier of the regular expression: index of the last character
\* of the longest run of characters of class that starts at index i (i-1 when
\* the run is empty)
RunEnd(s, i, class) ==
    CHOOSE j \in (i-1)..Len(s) :
        /\ (j = Len(s) \/ s[j+1] \notin class)
        /\ \A k \in i..j : s[k] \in class

-----------------------------------------------------------------------------
\* re.search of the pattern: group 1 = one or more digits, an optional ".",
\* zero or more digits; then zero or more whitespace; group 2 = zero or more
\* letters a-z

\* re.match of the same pattern: a match is tried at the first character only
RegexMatch(s) ==
    IF s = <<>> \/ ~IsDigit(s[1])
    THEN [found |-> FALSE, int |-> <<>>, dot |-> FALSE, frac |-> <<>>, unit |-> <<>>]
    ELSE LET intEnd  == RunEnd(s, 1, Digits)
             hasDot  == intEnd < Len(s) /\ s[intEnd + 1] = "."
             dotEnd  == IF hasDot THEN intEnd + 1 ELSE intEnd
             fracEnd == RunEnd(s, dotEnd + 1, Digits)
             spEnd   == RunEnd(s, fracEnd + 1, Whitespace)
             unitEnd == RunEnd(s, spEnd + 1, LowerLetters)
         IN  [found |-> TRUE,
              int   |-> SubSeq(s, 1, intEnd),
              dot   |-> hasDot,
              frac  |-> SubSeq(s, dotEnd + 1, fracEnd),
              unit  |-> SubSeq(s, spEnd + 1, unitEnd)]

\* The pattern begins with \d+ and everything after it is optional, so the
\* leftmost match starts at the first digit and no backtracking occurs.
RegexSearch(s) ==
    IF \A i \in 1..Len(s) : ~IsDigit(s[i])
    THEN [found |-> FALSE, int |-> <<>>, dot |-> FALSE, frac |-> <<>>, unit |-> <<>>]
    ELSE LET start   == CHOOSE i \in 1..Len(s) :
                            IsDigit(s[i]) /\ \A j \in 1..(i-1) : ~IsDigit(s[j])
             intEnd  == RunEnd(s, start, Digits)
             hasDot  == intEnd < Len(s) /\ s[intEnd + 1] = "."
             dotEnd  == IF hasDot THEN intEnd + 1 ELSE intEnd
             fracEnd == RunEnd(s, dotEnd + 1, Digits)
             spEnd   == RunEnd(s, fracEnd + 1, Whitespace)
             unitEnd == RunEnd(s, spEnd + 1, LowerLetters)
         IN  [found |-> TRUE,
              int   |-> SubSeq(s, start, intEnd),
              dot   |-> hasDot,
              frac  |-> SubSeq(s, dotEnd + 1, fracEnd),
              unit  |-> SubSeq(s, spEnd + 1, unitEnd)]

-----------------------------------------------------------------------------
(* float(match.group(1)), value * multiplier and int(...) *)

\* decimal digits of 2^1024 - 2^970: float() of a decimal whose integer part
\* is at least this number is inf (IEEE 754 binary64, round to nearest even)
FloatInfDigits ==
    << 1,7,9,7,6,9,3,1,3,4,8,6,2,3,1,5,8,0,7,9,3,7,2,8,9,7,1,4,0,5,3,0,3,4,1,5,0,7,9,9,3,4,1,3,2,7,1,0,0,3,7,8,2,6,9,3,6,1,7,3,
       7,7,8,9,8,0,4,4,4,9,6,8,2,9,2,7,6,4,7,5,0,9,4,6,6,4,9,0,1,7,9,7,7,5,8,7,2,0,7,0,9,6,3,3,0,2,8,6,4,1,6,6,9,2,8,8,7,9,1,0,
       9,4,6,5,5,5,5,4,7,8,5,1,9,4,0,4,0,2,6,3,0,6,5,7,4,8,8,6,7,1,5,0,5,8,2,0,6,8,1,9,0,8,9,0,2,0,0,0,7,0,8,3,8,3,6,7,6,2,7,3,
       8,5,4,8,4,5,8,1,7,7,1,1,5,3,1,7,6,4,4,7,5,7,3,0,2,7,0,0,6,9,8,5,5,5,7,1,3,6,6,9,5,9,6,2,2,8,4,2,9,1,4,8,1,9,8,6,0,8,3,4,
       9,3,6,4,7,5,2,9,2,7,1,9,0,7,4,1,6,8,4,4,4,3,6,5,5,1,0,7,0,4,3,4,2,7,1,1,5,5,9,6,9,9,5,0,8,0,9,3,0,4,2,8,8,0,1,7,7,9,0,4,
       1,7,4,4,9,7,7,9,2 >>

\* a digit string without its leading zeros
Significant(d) ==
    IF \A i \in 1..Len(d) : d[i] = "0"
    THEN <<>>
    ELSE SubSeq(d, CHOOSE i \in 1..Len(d) :
                       d[i] # "0" /\ \A j \in 1..(i-1) : d[j] = "0", Len(d))

\* the integer written by the digit string d is >= the one written by FloatInfDigits
FloatIsInf(d) ==
    LET sd == Significant(d)
        n  == Len(FloatInfDigits)
    IN  \/ Len(sd) > n
        \/ /\ Len(sd) = n
           /\ \/ \A i \in 1..n : DigitVal(sd[i]) = FloatInfDigits[i]
              \/ \E i \in 1..n :
                    /\ DigitVal(sd[i]) > FloatInfDigits[i]
                    /\ \A j \in 1..(i-1) : DigitVal(sd[j]) = FloatInfDigits[j]

RECURSIVE DecimalValue(_)
DecimalValue(d) ==
    IF d = <<>> THEN 0
    ELSE 10 * DecimalValue(SubSeq(d, 1, Len(d) - 1)) + DigitVal(d[Len(d)])

RECURSIVE Pow10(_)
Pow10(n) == IF n = 0 THEN 1 ELSE 10 * Pow10(n - 1)

\* float(match.group(1)): inf, or the decimal num/den. The decimal is kept
\* exact; on the duration strings drawn below the binary64 product agrees with
\* the exact product after truncation.
FloatOf(m) ==
    IF FloatIsInf(m.int)
    THEN [inf |-> TRUE, num |-> 0, den |-> 1]
    ELSE [inf |-> FALSE,
          num |-> DecimalValue(m.int \o m.frac),
          den |-> Pow10(Len(m.frac))]

-----------------------------------------------------------------------------
(* FlexibleRoadmapGenerator._parse_time_input *)

\* lower limit of the returned hours on the table-matched path
MinHours == 10

\* upper limit of the returned hours on the table-matched path
MaxHours == 2000

\* "return 100  # Default fallback"
DefaultHours == 100

\* unit used when group 2 of the match is empty
DefaultUnit == <<"h", "o", "u", "r", "s">>

\* the conversions dict, in its insertion order (the order dict.items() yields)
conversions ==
    <<
       [key |-> <<"h", "o", "u", "r">>, multiplier |-> 1],
       [key |-> <<"h", "o", "u", "r", "s">>, multiplier |-> 1],
       [key |-> <<"h", "r">>, multiplier |-> 1],
       [key |-> <<"h", "r", "s">>, multiplier |-> 1],
       [key |-> <<"h">>, multiplier |-> 1],
       [key |-> <<"d", "a", "y">>, multiplier |-> 8],
       [key |-> <<"d", "a", "y", "s">>, multiplier |-> 8],
       [key |-> <<"d">>, multiplier |-> 8],
       [key |-> <<"w", "e", "e", "k">>, multiplier |-> 40],
       [key |-> <<"w", "e", "e", "k", "s">>, multiplier |-> 40],
       [key |-> <<"w", "k">>, multiplier |-> 40],
       [key |-> <<"w">>, multiplier |-> 40],
       [key |-> <<"m", "o", "n", "t", "h">>, multiplier |-> 160],
       [key |-> <<"m", "o", "n", "t", "h", "s">>, multiplier |-> 160],
       [key |-> <<"m", "o">>, multiplier |-> 160],
       [key |-> <<"m">>, multiplier |-> 160],
       [key |-> <<"y", "e", "a", "r">>, multiplier |-> 1920],
       [key |-> <<"y", "e", "a", "r", "s">>, multiplier |-> 1920],
       [key |-> <<"y", "r">>, multiplier |-> 1920],
       [key |-> <<"y">>, multiplier |-> 1920]
    >>

\* a comparison that accepts a key only when it equals the unit
UnitMatchesExact(unit, key) == unit = key

\* "unit.startswith(key) or key.startswith(unit)"
UnitMatches(unit, key) == StartsWith(unit, key) \/ StartsWith(key, unit)

\* a loop that prefers the key equal to the unit over the first compatible one
ExactMatchFirst(unit) ==
    IF \E k \in 1..Len(conversions) : conversions[k].key = unit
    THEN CHOOSE k \in 1..Len(conversions) : conversions[k].key = unit
    ELSE IF \E k \in 1..Len(conversions) : UnitMatches(unit, conversions[k].key)
         THEN CHOOSE k \in 1..Len(conversions) :
                 /\ UnitMatches(unit, conversions[k].key)
                 /\ \A j \in 1..(k-1) : ~UnitMatches(unit, conversions[j].key)
         ELSE 0

\* the for loop over conversions.items(): position of the first key that
\* matches, at which the loop returns; 0 when the loop runs to its end
FirstMatch(unit) ==
    IF \E k \in 1..Len(conversions) : UnitMatches(unit, conversions[k].key)
    THEN CHOOSE k \in 1..Len(conversions) :
            /\ UnitMatches(unit, conversions[k].key)
            /\ \A j \in 1..(k-1) : ~UnitMatches(unit, conversions[j].key)
    ELSE 0

\* Clamp without its lower limit: min(total_hours, 2000)
ClampNoFloor(h) == IF h < MaxHours THEN h ELSE MaxHours

\* min(max(total_hours, 10), 2000)
Clamp(h) ==
    LET lo == IF h > MinHours THEN h ELSE MinHours
    IN  IF lo < MaxHours THEN lo ELSE MaxHours

\* value * multiplier (inf * multiplier is inf)
FloatMul(value, multiplier) ==
    [inf |-> value.inf, num |-> value.num * multiplier, den |-> value.den]

\* int(x) of a non-negative float: truncation; int(inf) raises OverflowError
IntOf(x) ==
    IF x.inf
    THEN [raised |-> TRUE, int |-> 0]
    ELSE [raised |-> FALSE, int |-> x.num \div x.den]

Returned(h, path, k) ==
    [pc |-> "returned", hours |-> h, exc |-> "none", path |-> path, idx |-> k]

Raised(e, path, k) ==
    [pc |-> "raised", hours |-> 0, exc |-> e, path |-> path, idx |-> k]

\* a no-match branch whose default is the lower limit instead of 100
NoMatchResultMin(s) ==
    IF \E i \in 1..Len(s) : IsDigit(s[i])
    THEN LET a == CHOOSE i \in 1..Len(s) :
                     IsDigit(s[i]) /\ \A j \in 1..(i-1) : ~IsDigit(s[j])
         IN  Returned(DecimalValue(SubSeq(s, a, RunEnd(s, a, Digits))), "digits", 0)
    ELSE Returned(MinHours, "default", 0)

\* the "if not match:" branch: re.findall(r'\d+', time_str), then
\* int(numbers[0]) or the default
NoMatchResult(s) ==
    IF \E i \in 1..Len(s) : IsDigit(s[i])
    THEN LET a == CHOOSE i \in 1..Len(s) :
                     IsDigit(s[i]) /\ \A j \in 1..(i-1) : ~IsDigit(s[j])
         IN  Returned(DecimalValue(SubSeq(s, a, RunEnd(s, a, Digits))), "digits", 0)
    ELSE Returned(DefaultHours, "default", 0)

\* a parser that sends a number without a unit to the raw-digit branch
ParseTimeResultBareDigits(raw) ==
    LET s == StrStrip(StrLower(raw))
        m == RegexSearch(s)
    IN  IF ~m.found \/ m.unit = <<>>
        THEN NoMatchResult(s)
        ELSE LET value == FloatOf(m)
                 k     == FirstMatch(m.unit)
             IN  IF k # 0
                 THEN LET p == IntOf(FloatMul(value, conversions[k].multiplier))
                      IN  IF p.raised
                          THEN Raised("OverflowError", "matched", k)
                          ELSE Returned(Clamp(p.int), "matched", k)
                 ELSE LET p == IntOf(value)
                      IN  IF p.raised
                          THEN Raised("OverflowError", "unmatched", 0)
                          ELSE Returned(p.int, "unmatched", 0)

\* the whole of _parse_time_input, as an outcome record
ParseTimeResult(raw) ==
    LET s == StrStrip(StrLower(raw))
        m == RegexSearch(s)
    IN  IF ~m.found
        THEN NoMatchResult(s)
        ELSE LET value == FloatOf(m)
                 unit  == IF m.unit # <<>> THEN m.unit ELSE DefaultUnit
                 k     == FirstMatch(unit)
             IN  IF k # 0
                 THEN LET p == IntOf(FloatMul(value, conversions[k].multiplier))
                      IN  IF p.raised
                          THEN Raised("OverflowError", "matched", k)
                          ELSE Returned(Clamp(p.int), "matched", k)
                 ELSE LET p == IntOf(value)
                      IN  IF p.raised
                          THEN Raised("OverflowError", "unmatched", 0)
                          ELSE Returned(p.int, "unmatched", 0)

-----------------------------------------------------------------------------
(* Duration strings the parser is applied to *)

\* characters the exhaustive strings are built from: digits, ".", blank,
\* "-", unit letters of three table groups (h, d, m) and a letter that
\* starts no key (f)
TimeAlphabet == {"0", "2", "7", ".", " ", "-", "h", "d", "m", "f"}

\* every string over A of length at most n
BoundedStrings(A, n) == UNION {[1..k -> A] : k \in 0..n}

\* a run of 310 digits: more digits than any finite binary64 has
LongDigits == [i \in 1..310 |-> "9"]

TimeExamples ==
    { <<>>,
      <<"1", "0", "0", " ", "h", "o", "u", "r", "s">>,
      <<"2", " ", "m", "o", "n", "t", "h", "s">>,
      <<"1", "0", " ", "w", "e", "e", "k", "s">>,
      <<"3", "0", " ", "d", "a", "y", "s">>,
      <<"1", " ", "y", "e", "a", "r">>,
      <<"2", ".", "5", " ", "w", "e", "e", "k", "s">>,
      <<"2", "5", "0">>,
      <<"1", " ", "h", "o", "u", "r">>,
      <<"5", "0", "0", "0", " ", "h", "o", "u", "r", "s">>,
      <<"7">>,
      <<"a", "b", "c">>,
      <<"5", " ", "f", "o", "r", "t", "n", "i", "g", "h", "t">>,
      <<"0", " ", "f", "o", "r", "t", "n", "i", "g", "h", "t">>,
      <<"3", "0", "0", "0", " ", "f", "o", "r", "t", "n", "i", "g", "h", "t">>,
      <<"3", "0", " ", "m", "i", "n", "u", "t", "e", "s">>,
      <<"2", " ", "M", "O", "N", "T", "H", "S">>,
      <<" ", " ", "1", "2", " ", "H", "r", "s", " ">>,
      <<"6", "m", "o">>,
      <<"2", "y">>,
      <<"8", "w">>,
      <<"4", "5", "d">>,
      <<"1", ".", "5", " ", "w", "k">>,
      <<"-", "5", " ", "h", "o", "u", "r", "s">>,
      <<"a", "b", "o", "u", "t", " ", "3", " ", "y", "r">>,
      <<"5", " ", "h", "e", "l", "l", "o">>,
      <<"-", "2", ".", "5", " ", "w", "e", "e", "k", "s">>,
      LongDigits,
      LongDigits \o <<" ", "h", "o", "u", "r", "s">>,
      LongDigits \o <<" ", "f", "o", "r", "t", "n", "i", "g", "h", "t">> }

TimeInputs == BoundedStrings(TimeAlphabet, MaxTimeLen) \cup TimeExamples

-----------------------------------------------------------------------------
(* JSON values and json.loads *)

\* A decoded JSON value. Every value has the same fields, so that any two can
\* be compared: t is the type, n an int, s the characters of a str (or the
\* literal of a float), a the items of a list, o a dict as a function from
\* its keys.
JValue(t, n, s, a, o) == [t |-> t, n |-> n, s |-> s, a |-> a, o |-> o]

JNull == JValue("null", 0, <<>>, <<>>, <<>>)

JTrue == JValue("true", 0, <<>>, <<>>, <<>>)

JFalse == JValue("false", 0, <<>>, <<>>, <<>>)

JNum(n) == JValue("int", n, <<>>, <<>>, <<>>)

JFloat(lit) == JValue("float", 0, lit, <<>>, <<>>)

JStr(s) == JValue("str", 0, s, <<>>, <<>>)

JArr(a) == JValue("list", 0, <<>>, a, <<>>)

JObj(o) == JValue("dict", 0, <<>>, <<>>, o)

EmptyObj == JObj(<<>>)

\* d[key] = v: a repeated key keeps the last value
DictPut(o, key, v) ==
    [k \in (DOMAIN o) \cup {key} |-> IF k = key THEN v ELSE o[k]]

\* truth value of a Python object, as "fallback or {}" tests it
Truthy(v) ==
    CASE v.t = "dict"  -> DOMAIN v.o # {}
      [] v.t = "list"  -> v.a # <<>>
      [] v.t = "str"   -> v.s # <<>>
      [] v.t = "int"   -> v.n # 0
      [] v.t = "true"  -> TRUE
      [] v.t = "float" -> TRUE
      [] OTHER         -> FALSE

\* the substring sub occurs in s at index i
HasAt(s, i, sub) ==
    /\ i >= 1
    /\ i + Len(sub) - 1 <= Len(s)
    /\ \A k \in 1..Len(sub) : s[i + k - 1] = sub[k]

\* the character at index i, "" past the end
At(s, i) == IF i >= 1 /\ i <= Len(s) THEN s[i] ELSE ""

\* str.find(sub, from): least index >= from at which sub occurs, 0 for -1
\* (indices are 1-based)
Find(s, sub, from) ==
    IF \E i \in from..Len(s) : HasAt(s, i, sub)
    THEN CHOOSE i \in from..Len(s) :
            HasAt(s, i, sub) /\ \A j \in from..(i-1) : ~HasAt(s, j, sub)
    ELSE 0

\* str.rfind(sub): greatest index at which sub occurs, 0 for -1
RFind(s, sub) ==
    IF \E i \in 1..Len(s) : HasAt(s, i, sub)
    THEN CHOOSE i \in 1..Len(s) :
            HasAt(s, i, sub) /\ \A j \in (i+1)..Len(s) : ~HasAt(s, j, sub)
    ELSE 0

\* results of the decoder's scanning functions: st is "ok" (value v, next
\* index i), "err" (json.JSONDecodeError) or "rec" (RecursionError)
Ok(v, i) == [st |-> "ok", v |-> v, i |-> i]

Err == [st |-> "err", v |-> JNull, i |-> 0]

Rec == [st |-> "rec", v |-> JNull, i |-> 0]

\* index of the first character at or after i that is not JSON whitespace
SkipWs(s, i) == RunEnd(s, i, Whitespace) + 1

\* characters a simple backslash escape stands for
Unescape(c) ==
    CASE c = "n" -> "\n"
      [] c = "t" -> "\t"
      [] c = "r" -> "\r"
      [] OTHER   -> c

\* scanstring: the characters from index i up to the closing quote; a control
\* character or the end of the text before the quote is an error
RECURSIVE ScanString(_, _, _)
ScanString(s, i, acc) ==
    IF i > Len(s) THEN Err
    ELSE IF s[i] = "\"" THEN Ok(JStr(acc), i + 1)
    ELSE IF s[i] = "\\"
         THEN IF At(s, i + 1) \in {"\"", "\\", "/", "n", "t", "r"}
              THEN ScanString(s, i + 2, Append(acc, Unescape(s[i + 1])))
              ELSE Err
    ELSE IF s[i] \in {"\n", "\t", "\r"} THEN Err
    ELSE ScanString(s, i + 1, Append(acc, s[i]))

\* the number pattern -?(0|[1-9]\d*)(\.\d+)?([eE][-+]?\d+)? matched at i,
\* where a digit follows the optional sign: an int, or a float when a
\* fraction or an exponent is present
ScanNumber(s, i) ==
    LET neg     == s[i] = "-"
        d       == IF neg THEN i + 1 ELSE i
        intEnd  == IF s[d] = "0" THEN d ELSE RunEnd(s, d, Digits)
        hasFrac == At(s, intEnd + 1) = "." /\ At(s, intEnd + 2) \in Digits
        fracEnd == IF hasFrac THEN RunEnd(s, intEnd + 2, Digits) ELSE intEnd
        sgn     == IF At(s, fracEnd + 2) \in {"+", "-"} THEN fracEnd + 3 ELSE fracEnd + 2
        hasExp  == At(s, fracEnd + 1) \in {"e", "E"} /\ At(s, sgn) \in Digits
        expEnd  == IF hasExp THEN RunEnd(s, sgn, Digits) ELSE fracEnd
        mag     == DecimalValue(SubSeq(s, d, intEnd))
    IN  IF hasFrac \/ hasExp
        THEN Ok(JFloat(SubSeq(s, i, expEnd)), expEnd + 1)
        ELSE Ok(JNum(IF neg THEN 0 - mag ELSE mag), intEnd + 1)

Lit_null == <<"n", "u", "l", "l">>

Lit_true == <<"t", "r", "u", "e">>

Lit_false == <<"f", "a", "l", "s", "e">>

Lit_NaN == <<"N", "a", "N">>

Lit_Infinity == <<"I", "n", "f", "i", "n", "i", "t", "y">>

Lit_NegInfinity == <<"-">> \o Lit_Infinity

RECURSIVE ScanOnce(_, _, _)
RECURSIVE ScanMembers(_, _, _, _)
RECURSIVE ScanItems(_, _, _, _)

\* scan_once: the value that starts at index i, inside depth containers
ScanOnce(s, i, depth) ==
    LET c == At(s, i)
    IN  IF c = "\"" THEN ScanString(s, i + 1, <<>>)
        ELSE IF c = "{"
             THEN IF depth + 1 >= RecursionLimit THEN Rec
                  ELSE LET j == SkipWs(s, i + 1)
                       IN  IF At(s, j) = "}" THEN Ok(EmptyObj, j + 1)
                           ELSE ScanMembers(s, j, depth + 1, <<>>)
        ELSE IF c = "["
             THEN IF depth + 1 >= RecursionLimit THEN Rec
                  ELSE LET j == SkipWs(s, i + 1)
                       IN  IF At(s, j) = "]" THEN Ok(JArr(<<>>), j + 1)
                           ELSE ScanItems(s, j, depth + 1, <<>>)
        ELSE IF HasAt(s, i, Lit_null) THEN Ok(JNull, i + 4)
        ELSE IF HasAt(s, i, Lit_true) THEN Ok(JTrue, i + 4)
        ELSE IF HasAt(s, i, Lit_false) THEN Ok(JFalse, i + 5)
        ELSE IF c \in Digits \/ (c = "-" /\ At(s, i + 1) \in Digits) THEN ScanNumber(s, i)
        ELSE IF HasAt(s, i, Lit_NaN) THEN Ok(JFloat(Lit_NaN), i + 3)
        ELSE IF HasAt(s, i, Lit_Infinity) THEN Ok(JFloat(Lit_Infinity), i + 8)
        ELSE IF HasAt(s, i, Lit_NegInfinity) THEN Ok(JFloat(Lit_NegInfinity), i + 9)
        ELSE Err

\* the members of an object from index i (a key is expected there), o being
\* the members read so far
ScanMembers(s, i, depth, o) ==
    IF At(s, i) # "\"" THEN Err
    ELSE LET key == ScanString(s, i + 1, <<>>)
         IN  IF key.st # "ok" THEN key
             ELSE LET c == SkipWs(s, key.i)
                  IN  IF At(s, c) # ":" THEN Err
                      ELSE LET val == ScanOnce(s, SkipWs(s, c + 1), depth)
                           IN  IF val.st # "ok" THEN val
                               ELSE LET e  == SkipWs(s, val.i)
                                        o2 == DictPut(o, key.v.s, val.v)
                                    IN  IF At(s, e) = "}" THEN Ok(JObj(o2), e + 1)
                                        ELSE IF At(s, e) = ","
                                             THEN ScanMembers(s, SkipWs(s, e + 1), depth, o2)
                                             ELSE Err

\* the items of an array from index i (a value is expected there), a being
\* the items read so far
ScanItems(s, i, depth, a) ==
    LET val == ScanOnce(s, i, depth)
    IN  IF val.st # "ok" THEN val
        ELSE LET e  == SkipWs(s, val.i)
                 a2 == Append(a, val.v)
             IN  IF At(s, e) = "]" THEN Ok(JArr(a2), e + 1)
                 ELSE IF At(s, e) = ","
                      THEN ScanItems(s, SkipWs(s, e + 1), depth, a2)
                      ELSE Err

\* json.loads(s): one value between optional whitespace; anything after it
\* is "Extra data"
JsonLoads(s) ==
    LET r == ScanOnce(s, SkipWs(s, 1), 0)
    IN  IF r.st # "ok" THEN r
        ELSE IF SkipWs(s, r.i) = Len(s) + 1 THEN r ELSE Err

-----------------------------------------------------------------------------
(* FlexibleRoadmapGenerator._parse_json_safely *)

\* the character U+0060 (grave accent), which a TLA+ string cannot hold; it is
\* one character of the text like any other
BQ == "U+0060"

FenceJson == <<BQ, BQ, BQ, "j", "s", "o", "n">>

Fence == <<BQ, BQ, BQ>>

\* a code-block step that tests the bare fence before the json fence
CodeBlockStepBareFirst(stripped) ==
    IF Find(stripped, Fence, 1) # 0
    THEN LET start == Find(stripped, Fence, 1) + 3
             end   == Find(stripped, Fence, start)
         IN  IF end # 0 THEN StrStrip(SubSeq(stripped, start, end - 1)) ELSE stripped
    ELSE stripped

\* a code-block step that takes the rest of the text when the closing fence
\* is missing
CodeBlockStepOpenEnded(stripped) ==
    IF Find(stripped, FenceJson, 1) # 0
    THEN LET start == Find(stripped, FenceJson, 1) + 7
             end   == Find(stripped, Fence, start)
         IN  IF end # 0 THEN StrStrip(SubSeq(stripped, start, end - 1))
             ELSE StrStrip(SubSeq(stripped, start, Len(stripped)))
    ELSE IF Find(stripped, Fence, 1) # 0
         THEN LET start == Find(stripped, Fence, 1) + 3
                  end   == Find(stripped, Fence, start)
              IN  IF end # 0 THEN StrStrip(SubSeq(stripped, start, end - 1))
                  ELSE StrStrip(SubSeq(stripped, start, Len(stripped)))
         ELSE stripped

\* "# Handle code blocks": the if/elif over the stripped response
CodeBlockStep(stripped) ==
    IF Find(stripped, FenceJson, 1) # 0
    THEN LET start == Find(stripped, FenceJson, 1) + 7
             end   == Find(stripped, Fence, start)
         IN  IF end # 0 THEN StrStrip(SubSeq(stripped, start, end - 1)) ELSE stripped
    ELSE IF Find(stripped, Fence, 1) # 0
         THEN LET start == Find(stripped, Fence, 1) + 3
                  end   == Find(stripped, Fence, start)
              IN  IF end # 0 THEN StrStrip(SubSeq(stripped, start, end - 1)) ELSE stripped
         ELSE stripped

\* "# Try to find JSON object in the text": content[start_idx:end_idx+1]
BraceSliceStep(c) ==
    IF ~StartsWith(c, <<"{">>)
    THEN LET start_idx == Find(c, <<"{">>, 1)
         IN  IF start_idx # 0
             THEN LET end_idx == RFind(c, <<"}">>)
                  IN  IF end_idx # 0 THEN SubSeq(c, start_idx, end_idx) ELSE c
             ELSE c
    ELSE c

\* "return fallback or {}"
FallbackOrEmpty(fb) == IF Truthy(fb) THEN fb ELSE EmptyObj

\* a treatment of the decoded value that takes a falsy value for a failure
ParseJsonResultFalsy(raw, fb) ==
    LET c    == CodeBlockStep(StrStrip(raw))
        text == BraceSliceStep(c)
        r    == JsonLoads(text)
    IN  CASE r.st = "ok"  -> [pc |-> "returned", content |-> c, text |-> text,
                              result |-> IF Truthy(r.v) THEN r.v ELSE FallbackOrEmpty(fb),
                              exc |-> "none"]
          [] r.st = "err" -> [pc |-> "returned", content |-> c, text |-> text,
                              result |-> FallbackOrEmpty(fb), exc |-> "none"]
          [] OTHER        -> [pc |-> "raised", content |-> c, text |-> text,
                              result |-> JNull, exc |-> "RecursionError"]

\* the whole of _parse_json_safely, as an outcome record: json.JSONDecodeError
\* is caught by the except clause, RecursionError is not a ValueError and
\* leaves the function
ParseJsonResult(raw, fb) ==
    LET c    == CodeBlockStep(StrStrip(raw))
        text == BraceSliceStep(c)
        r    == JsonLoads(text)
    IN  CASE r.st = "ok"  -> [pc |-> "returned", content |-> c, text |-> text,
                              result |-> r.v, exc |-> "none"]
          [] r.st = "err" -> [pc |-> "returned", content |-> c, text |-> text,
                              result |-> FallbackOrEmpty(fb), exc |-> "none"]
          [] OTHER        -> [pc |-> "raised", content |-> c, text |-> text,
                              result |-> JNull, exc |-> "RecursionError"]

-----------------------------------------------------------------------------
(* Raw LLM texts and fallbacks the extractor is applied to *)

\* pieces a raw text is concatenated from: the two fences, well-formed JSON
\* texts, commentary, whitespace and stray brackets
RawTokens ==
    { <<BQ, BQ, BQ, "j", "s", "o", "n">>,
      <<BQ, BQ, BQ>>,
      <<"{", "\"", "a", "\"", ":", "1", "}">>,
      <<"{", "}">>,
      <<"[", "1", "]">>,
      <<"x">>,
      <<" ">>,
      <<"{">>,
      <<"}">>,
      <<"[">> }

RECURSIVE Flatten(_)
Flatten(ts) == IF ts = <<>> THEN <<>> ELSE Head(ts) \o Flatten(Tail(ts))

\* a text nested as deep as the recursion limit
DeepText == [i \in 1..RecursionLimit |-> "["]

\* the character U+2014 (em dash) of the commentary example
EmDash == "U+2014"

RECURSIVE Repeat(_, _)
Repeat(s, n) == IF n = 0 THEN <<>> ELSE s \o Repeat(s, n - 1)

\* {"a":{"a": ... 1 ... }}: a well-formed object nested as deep as the
\* recursion limit, and one nested one level less
DeepObjectText ==
    Repeat(<<"{", "\"", "a", "\"", ":">>, RecursionLimit) \o <<"1">> \o Repeat(<<"}">>, RecursionLimit)

ShallowObjectText ==
    Repeat(<<"{", "\"", "a", "\"", ":">>, RecursionLimit - 1) \o <<"1">> \o Repeat(<<"}">>, RecursionLimit - 1)

RawExamples ==
    { <<BQ, BQ, BQ, "j", "s", "o", "n", "\n", "{", "\"", "a", "\"", ":", " ", "1", "}", "\n", BQ, BQ, BQ>>,
      <<"H", "e", "r", "e", " ", "i", "s", " ", "y", "o", "u", "r", " ", "r", "e", "s", "u", "l", "t", ":", " ", "{", "\"", "a", "\"", ":", " ", "1", "}", " ", "-", " ", "e", "n", "j", "o", "y", "!">>,
      <<"n", "o", "t", " ", "j", "s", "o", "n", " ", "a", "t", " ", "a", "l", "l">>,
      <<"{", "}">>,
      <<"4", "2">>,
      <<"n", "u", "l", "l">>,
      <<"\"", "x", "\"">>,
      <<"t", "r", "u", "e">>,
      <<"[", "1", ",", " ", "2", "]">>,
      <<BQ, BQ, BQ, " ", "x", " ", BQ, BQ, BQ, " ", BQ, BQ, BQ, "j", "s", "o", "n", " ", "{", "\"", "a", "\"", ":", "1", "}", " ", BQ, BQ, BQ>>,
      <<BQ, BQ, BQ, "\n", "{", "\"", "a", "\"", ":", " ", "1", "}", "\n", BQ, BQ, BQ>>,
      <<BQ, BQ, BQ, "j", "s", "o", "n", " ", "{", "\"", "a", "\"", ":", "1", "}">>,
      <<"{", "\"", "a", "\"", ":", "1", "}", " ", "t", "h", "a", "n", "k", "s">>,
      <<"o", "k", " ", "{", "\"", "a", "\"", ":", "1", "}", " ", "t", "h", "a", "n", "k", "s">>,
      <<"{", "\"", "a", "\"", ":", " ", "{", "\"", "b", "\"", ":", " ", "[", "1", ",", " ", "\"", "c", "\"", "]", "}", ",", " ", "\"", "d", "\"", ":", " ", "f", "a", "l", "s", "e", "}">>,
      <<"{", "\"", "a", "\"", ":", "1", ",", "\"", "a", "\"", ":", "2", "}">>,
      <<"{", "\"", "a", "\"", ":", "\"", "\\", "\"", "}", "\"", "}">>,
      <<"[", "[", "[", "[", "[", "1", "]", "]", "]", "]", "]">>,
      <<"{", "\"", "a", "\"", ":", "[", "[", "[", "[", "1", "]", "]", "]", "]", "}">>,
      DeepText,
      <<"x", " ">> \o DeepText,
      <<"H", "e", "r", "e", " ", "i", "s", " ", "y", "o", "u", "r", " ", "r", "e", "s", "u", "l", "t", ":", " ", "{", "\"", "a", "\"", ":", " ", "1", "}", " ", EmDash, " ", "e", "n", "j", "o", "y", "!">>,
      <<"x", " ">> \o DeepObjectText \o <<" ", "y">>,
      <<"x", " ">> \o ShallowObjectText \o <<" ", "y">>,
      DeepObjectText \o <<" ", "y">>,
      ShallowObjectText \o <<" ", "y">>,
      <<"o", "k", " ", "{", "\"", "a", "\"", ":", "1", "}", " ", "e", "n", "d", " ", "}">>,
      <<"{", "\"", "a", "\"", ":", "1", "}", " ", "e", "n", "d", " ", "}">> }

RawTexts ==
    {Flatten(ts) : ts \in BoundedStrings(RawTokens, MaxRawTokens)} \cup RawExamples

\* {"fallback": true}
FallbackObj == JObj(DictPut(<<>>, <<"f", "a", "l", "l", "b", "a", "c", "k">>, JTrue))

\* fallbacks a caller passes: a non-empty dict, the empty dict, and None (the
\* default of the parameter)
Fallbacks == {FallbackObj, EmptyObj, JNull}

-----------------------------------------------------------------------------
(* Serialised objects the extractor is applied to (round trip) *)

\* str(n) of an int
RECURSIVE NatDigits(_)
NatDigits(n) == IF n < 10 THEN <<DigitSeq[n + 1]>> ELSE Append(NatDigits(n \div 10), DigitSeq[(n % 10) + 1])

IntDigits(n) == IF n < 0 THEN <<"-">> \o NatDigits(0 - n) ELSE NatDigits(n)

\* the escape the serialiser writes for a character of a str
EscapeChar(c) ==
    CASE c = "\"" -> <<"\\", "\"">>
      [] c = "\\" -> <<"\\", "\\">>
      [] c = "\n" -> <<"\\", "n">>
      [] c = "\t" -> <<"\\", "t">>
      [] c = "\r" -> <<"\\", "r">>
      [] OTHER    -> <<c>>

DumpStr(str) == <<"\"">> \o Flatten([i \in 1..Len(str) |-> EscapeChar(str[i])]) \o <<"\"">>

RECURSIVE JsonDumps(_)
RECURSIVE DumpItems(_)
RECURSIVE DumpMembers(_, _)

\* the items of a list, joined by ", "
DumpItems(a) ==
    IF a = <<>> THEN <<>>
    ELSE IF Len(a) = 1 THEN JsonDumps(a[1])
    ELSE JsonDumps(a[1]) \o <<",", " ">> \o DumpItems(Tail(a))

\* the members "key": value of a dict, joined by ", "; the dict of the model
\* has no order (and dict equality does not look at it), so the keys are
\* written in one fixed order
DumpMembers(o, keys) ==
    IF keys = {} THEN <<>>
    ELSE LET k    == CHOOSE x \in keys : TRUE
             rest == keys \ {k}
         IN  DumpStr(k) \o <<":", " ">> \o JsonDumps(o[k])
                \o (IF rest = {} THEN <<>> ELSE <<",", " ">> \o DumpMembers(o, rest))

\* the JSON text of a value without floats, with the separators ", " and ": "
JsonDumps(v) ==
    CASE v.t = "null"  -> Lit_null
      [] v.t = "true"  -> Lit_true
      [] v.t = "false" -> Lit_false
      [] v.t = "int"   -> IntDigits(v.n)
      [] v.t = "str"   -> DumpStr(v.s)
      [] v.t = "list"  -> <<"[">> \o DumpItems(v.a) \o <<"]">>
      [] v.t = "dict"  -> <<"{">> \o DumpMembers(v.o, DOMAIN v.o) \o <<"}">>

\* the dict {"a": {"a": ... 1}} of n levels
RECURSIVE Nested(_)
Nested(n) == IF n = 0 THEN JNum(1) ELSE JObj(DictPut(<<>>, <<"a">>, Nested(n - 1)))

\* longest string value of the drawn objects {"a": <string>}
MaxValueLen == 6

\* characters of those string values: the backtick, a letter, a blank
ValueAlphabet == {BQ, "j", " "}

\* well-formed single objects without braces in their string values
RoundTripObjects ==
    { JObj(DictPut(<<>>, <<"a">>, JStr(str))) : str \in BoundedStrings(ValueAlphabet, MaxValueLen) }
    \cup
    { EmptyObj,
      JObj(DictPut(<<>>, <<"a">>, JNum(1))),
      JObj(DictPut(<<>>, <<"a">>, JStr(<<BQ, BQ, BQ, " ", "b", " ", BQ, BQ, BQ>>))),
      JObj(DictPut(<<>>, <<"a">>, JStr(<<"x", BQ, BQ, BQ, "j", "s", "o", "n", " ", "y", BQ, BQ, BQ, " ", "z">>))),
      JObj(DictPut(<<>>, <<"a">>, JStr(<<"s", "a", "y", " ", "\"", "h", "i", "\"", "\n", "\\">>))),
      JObj(DictPut(DictPut(<<>>, <<"a">>,
                           JObj(DictPut(<<>>, <<"b">>, JArr(<<JNum(1), JStr(<<"c">>)>>)))),
                   <<"d">>, JFalse)),
      JObj(DictPut(DictPut(DictPut(<<>>, <<"a">>, JNull), <<"b">>, JTrue), <<"n">>, JNum(0 - 12))),
      Nested(RecursionLimit - 1),
      Nested(RecursionLimit) }

RoundTripTexts == {JsonDumps(X) : X \in RoundTripObjects}

-----------------------------------------------------------------------------
(* The two functions as state machines: one call per behaviour *)

ParseIdle ==
    /\ time_str = <<>>
    /\ parse_pc = "idle"
    /\ total_hours = 0
    /\ parse_exc = "none"
    /\ parse_path = "none"
    /\ key_idx = 0

JsonIdle ==
    /\ response_content = <<>>
    /\ fallback = JNull
    /\ json_pc = "idle"
    /\ content = <<>>
    /\ json_text = <<>>
    /\ json_result = JNull
    /\ json_exc = "none"

Requests == 1..NumRequests

\* no request is drawn: the server takes no step
ServerIdle ==
    /\ GROQ_API_KEY = JNull
    /\ settings_cache = <<>>
    /\ loop_owner = 0
    /\ request = [r \in Requests |-> <<>>]
    /\ req_pc = [r \in Requests |-> "idle"]
    /\ generator = [r \in Requests |-> FALSE]
    /\ req_hours = [r \in Requests |-> 0]
    /\ attempt = [r \in Requests |-> 0]
    /\ invocations = [r \in Requests |-> 0]
    /\ in_flight = [r \in Requests |-> 0]
    /\ slept = [r \in Requests |-> <<>>]
    /\ answers = [r \in Requests |-> <<>>]
    /\ llm_content = [r \in Requests |-> <<>>]
    /\ complete_roadmap = [r \in Requests |-> JNull]
    /\ http_status = [r \in Requests |-> 0]
    /\ response = [r \in Requests |-> JNull]
    /\ health_pc = "idle"

FallbackIdle ==
    /\ fb_time_input = <<>>
    /\ fb_pc = "idle"
    /\ fb_hours = <<>>
    /\ fb_numbers = <<>>

InitParse ==
    /\ time_str \in TimeInputs
    /\ parse_pc = "call"
    /\ total_hours = 0
    /\ parse_exc = "none"
    /\ parse_path = "none"
    /\ key_idx = 0
    /\ JsonIdle
    /\ ServerIdle
    /\ FallbackIdle

InitJson ==
    /\ response_content \in RawTexts
    /\ fallback \in Fallbacks
    /\ json_pc = "call"
    /\ content = <<>>
    /\ json_text = <<>>
    /\ json_result = JNull
    /\ json_exc = "none"
    /\ ParseIdle
    /\ ServerIdle
    /\ FallbackIdle

\* a call of the extractor on the serialisation of an object
InitRoundTrip ==
    /\ response_content \in RoundTripTexts
    /\ fallback \in Fallbacks
    /\ json_pc = "call"
    /\ content = <<>>
    /\ json_text = <<>>
    /\ json_result = JNull
    /\ json_exc = "none"
    /\ ParseIdle
    /\ ServerIdle
    /\ FallbackIdle

\* one call of _parse_time_input(time_str)
ParseTimeInput ==
    /\ parse_pc = "call"
    /\ LET r == ParseTimeResult(time_str)
       IN  /\ parse_pc' = r.pc
           /\ total_hours' = r.hours
           /\ parse_exc' = r.exc
           /\ parse_path' = r.path
           /\ key_idx' = r.idx
    /\ UNCHANGED time_str
    /\ UNCHANGED json_vars
    /\ UNCHANGED server_vars
    /\ UNCHANGED fallback_vars

\* one call of _parse_json_safely(response_content, fallback)
ParseJsonSafely ==
    /\ json_pc = "call"
    /\ LET r == ParseJsonResult(response_content, fallback)
       IN  /\ json_pc' = r.pc
           /\ content' = r.content
           /\ json_text' = r.text
           /\ json_result' = r.result
           /\ json_exc' = r.exc
    /\ UNCHANGED <<response_content, fallback>>
    /\ UNCHANGED parse_vars
    /\ UNCHANGED server_vars
    /\ UNCHANGED fallback_vars

NextParse == ParseTimeInput

SpecParse == InitParse /\ [][NextParse]_vars

NextJson == ParseJsonSafely

SpecJson == InitJson /\ [][NextJson]_vars

SpecRoundTrip == InitRoundTrip /\ [][NextJson]_vars

-----------------------------------------------------------------------------
(* The fallback of generate_complete_roadmap *)

Max(a, b) == IF a >= b THEN a ELSE b

\* int(h * 0.1), int(h * 0.15), int(h * 0.25), int(h * 0.75) for a total h of
\* hours, pct being the coefficient in hundredths: for these four coefficients
\* the truncated float product is the exact quotient for every h up to 200000
IntTimes(h, pct) == (h * pct) \div 100

\* _format_time_breakdown(total_hours, original_input)
FormatTimeBreakdown(h, original_input) ==
    JObj(
      (<<"t", "o", "t", "a", "l", "_", "h", "o", "u", "r", "s">> :> JNum(h)) @@
      (<<"o", "r", "i", "g", "i", "n", "a", "l", "_", "i", "n", "p", "u", "t">> :> JStr(original_input)) @@
      (<<"s", "c", "h", "e", "d", "u", "l", "i", "n", "g", "_", "o", "p", "t", "i", "o", "n", "s">> :> JObj(
            (<<"i", "n", "t", "e", "n", "s", "i", "v", "e">> :> JObj(
                  (<<"h", "o", "u", "r", "s", "_", "p", "e", "r", "_", "d", "a", "y">> :> JNum(4)) @@
                  (<<"t", "o", "t", "a", "l", "_", "d", "a", "y", "s">> :> JNum(Max(1, h \div 4))) @@
                  (<<"d", "e", "s", "c", "r", "i", "p", "t", "i", "o", "n">> :> JStr(<<"C", "o", "m", "p", "l", "e", "t", "e", " ", "i", "n", " ">> \o IntDigits(Max(1, h \div 4)) \o <<" ", "d", "a", "y", "s", " ", "w", "i", "t", "h", " ", "4", " ", "h", "o", "u", "r", "s", " ", "d", "a", "i", "l", "y">>)))) @@
            (<<"m", "o", "d", "e", "r", "a", "t", "e">> :> JObj(
                  (<<"h", "o", "u", "r", "s", "_", "p", "e", "r", "_", "d", "a", "y">> :> JNum(2)) @@
                  (<<"t", "o", "t", "a", "l", "_", "d", "a", "y", "s">> :> JNum(Max(1, h \div 2))) @@
                  (<<"d", "e", "s", "c", "r", "i", "p", "t", "i", "o", "n">> :> JStr(<<"C", "o", "m", "p", "l", "e", "t", "e", " ", "i", "n", " ">> \o IntDigits(Max(1, h \div 2)) \o <<" ", "d", "a", "y", "s", " ", "w", "i", "t", "h", " ", "2", " ", "h", "o", "u", "r", "s", " ", "d", "a", "i", "l", "y">>)))) @@
            (<<"r", "e", "l", "a", "x", "e", "d">> :> JObj(
                  (<<"h", "o", "u", "r", "s", "_", "p", "e", "r", "_", "w", "e", "e", "k">> :> JNum(10)) @@
                  (<<"t", "o", "t", "a", "l", "_", "w", "e", "e", "k", "s">> :> JNum(Max(1, h \div 10))) @@
                  (<<"d", "e", "s", "c", "r", "i", "p", "t", "i", "o", "n">> :> JStr(<<"C", "o", "m", "p", "l", "e", "t", "e", " ", "i", "n", " ">> \o IntDigits(Max(1, h \div 10)) \o <<" ", "w", "e", "e", "k", "s", " ", "w", "i", "t", "h", " ", "1", "0", " ", "h", "o", "u", "r", "s", " ", "w", "e", "e", "k", "l", "y">>)))) @@
            (<<"c", "a", "s", "u", "a", "l">> :> JObj(
                  (<<"h", "o", "u", "r", "s", "_", "p", "e", "r", "_", "w", "e", "e", "k">> :> JNum(5)) @@
                  (<<"t", "o", "t", "a", "l", "_", "w", "e", "e", "k", "s">> :> JNum(Max(1, h \div 5))) @@
                  (<<"d", "e", "s", "c", "r", "i", "p", "t", "i", "o", "n">> :> JStr(<<"C", "o", "m", "p", "l", "e", "t", "e", " ", "i", "n", " ">> \o IntDigits(Max(1, h \div 5)) \o <<" ", "w", "e", "e", "k", "s", " ", "w", "i", "t", "h", " ", "5", " ", "h", "o", "u", "r", "s", " ", "w", "e", "e", "k", "l", "y">>)))))) @@
      (<<"m", "i", "l", "e", "s", "t", "o", "n", "e", "s">> :> JArr(<<
            JObj(
              (<<"p", "e", "r", "c", "e", "n", "t", "a", "g", "e">> :> JNum(25)) @@
              (<<"h", "o", "u", "r", "s">> :> JNum(h \div 4)) @@
              (<<"d", "e", "s", "c", "r", "i", "p", "t", "i", "o", "n">> :> JStr(<<"F", "o", "u", "n", "d", "a", "t", "i", "o", "n", " ", "c", "o", "m", "p", "l", "e", "t", "e">>))),
            JObj(
              (<<"p", "e", "r", "c", "e", "n", "t", "a", "g", "e">> :> JNum(50)) @@
              (<<"h", "o", "u", "r", "s">> :> JNum(h \div 2)) @@
              (<<"d", "e", "s", "c", "r", "i", "p", "t", "i", "o", "n">> :> JStr(<<"H", "a", "l", "f", "w", "a", "y", " ", "m", "i", "l", "e", "s", "t", "o", "n", "e">>))),
            JObj(
              (<<"p", "e", "r", "c", "e", "n", "t", "a", "g", "e">> :> JNum(75)) @@
              (<<"h", "o", "u", "r", "s">> :> JNum(IntTimes(h, 75))) @@
              (<<"d", "e", "s", "c", "r", "i", "p", "t", "i", "o", "n">> :> JStr(<<"A", "d", "v", "a", "n", "c", "e", "d", " ", "s", "k", "i", "l", "l", "s", " ", "a", "c", "q", "u", "i", "r", "e", "d">>))),
            JObj(
              (<<"p", "e", "r", "c", "e", "n", "t", "a", "g", "e">> :> JNum(100)) @@
              (<<"h", "o", "u", "r", "s">> :> JNum(h)) @@
              (<<"d", "e", "s", "c", "r", "i", "p", "t", "i", "o", "n">> :> JStr(<<"J", "o", "b", "-", "r", "e", "a", "d", "y", " ", "p", "o", "r", "t", "f", "o", "l", "i", "o">>))) >>)))

\* the fallback dict generate_complete_roadmap hands to _parse_json_safely
FallbackRoadmap(h, time_input, target_role, experience_level) ==
    LET buffer_hours   == IntTimes(h, 10)
        learning_hours == h - buffer_hours
    IN  JObj(
          (<<"s", "k", "i", "l", "l", "_", "g", "a", "p", "s">> :> JArr(<<
                JStr(<<"P", "r", "o", "g", "r", "a", "m", "m", "i", "n", "g", " ", "f", "u", "n", "d", "a", "m", "e", "n", "t", "a", "l", "s">>),
                JStr(<<"W", "e", "b", " ", "d", "e", "v", "e", "l", "o", "p", "m", "e", "n", "t">>),
                JStr(<<"P", "r", "o", "b", "l", "e", "m", " ", "s", "o", "l", "v", "i", "n", "g">>),
                JStr(<<"V", "e", "r", "s", "i", "o", "n", " ", "c", "o", "n", "t", "r", "o", "l">>) >>)) @@
          (<<"e", "s", "t", "i", "m", "a", "t", "e", "d", "_", "d", "u", "r", "a", "t", "i", "o", "n">> :> JStr(<<"F", "l", "e", "x", "i", "b", "l", "e", " ", "b", "a", "s", "e", "d", " ", "o", "n", " ">> \o IntDigits(h) \o <<" ", "t", "o", "t", "a", "l", " ", "h", "o", "u", "r", "s">>)) @@
          (<<"r", "o", "a", "d", "m", "a", "p">> :> JObj(
                (<<"l", "e", "a", "r", "n", "i", "n", "g", "_", "p", "a", "t", "h">> :> JArr(<<
                      JObj(
                        (<<"s", "t", "e", "p">> :> JNum(1)) @@
                        (<<"t", "i", "t", "l", "e">> :> JStr(<<"P", "r", "o", "g", "r", "a", "m", "m", "i", "n", "g", " ", "F", "o", "u", "n", "d", "a", "t", "i", "o", "n", "s">>)) @@
                        (<<"d", "e", "s", "c", "r", "i", "p", "t", "i", "o", "n">> :> JStr(<<"L", "e", "a", "r", "n", " ", "f", "u", "n", "d", "a", "m", "e", "n", "t", "a", "l", " ", "p", "r", "o", "g", "r", "a", "m", "m", "i", "n", "g", " ", "c", "o", "n", "c", "e", "p", "t", "s", " ", "f", "o", "r", " ">> \o target_role)) @@
                        (<<"s", "k", "i", "l", "l", "s", "_", "c", "o", "v", "e", "r", "e", "d">> :> JArr(<<
                              JStr(<<"B", "a", "s", "i", "c", " ", "p", "r", "o", "g", "r", "a", "m", "m", "i", "n", "g">>),
                              JStr(<<"P", "r", "o", "b", "l", "e", "m", " ", "s", "o", "l", "v", "i", "n", "g">>),
                              JStr(<<"L", "o", "g", "i", "c", " ", "b", "u", "i", "l", "d", "i", "n", "g">>) >>)) @@
                        (<<"e", "s", "t", "i", "m", "a", "t", "e", "d", "_", "h", "o", "u", "r", "s">> :> JNum(learning_hours \div 3)) @@
                        (<<"d", "i", "f", "f", "i", "c", "u", "l", "t", "y">> :> JStr(experience_level)) @@
                        (<<"p", "r", "e", "r", "e", "q", "u", "i", "s", "i", "t", "e", "s">> :> JArr(<<>>)) @@
                        (<<"k", "e", "y", "_", "p", "r", "o", "j", "e", "c", "t", "s">> :> JArr(<<
                              JStr(<<"H", "e", "l", "l", "o", " ", "W", "o", "r", "l", "d", " ", "p", "r", "o", "g", "r", "a", "m">>),
                              JStr(<<"B", "a", "s", "i", "c", " ", "c", "a", "l", "c", "u", "l", "a", "t", "o", "r">>) >>)) @@
                        (<<"c", "o", "m", "p", "l", "e", "t", "i", "o", "n", "_", "c", "r", "i", "t", "e", "r", "i", "a">> :> JArr(<<
                              JStr(<<"U", "n", "d", "e", "r", "s", "t", "a", "n", "d", " ", "b", "a", "s", "i", "c", " ", "p", "r", "o", "g", "r", "a", "m", "m", "i", "n", "g", " ", "c", "o", "n", "c", "e", "p", "t", "s">>) >>))),
                      JObj(
                        (<<"s", "t", "e", "p">> :> JNum(2)) @@
                        (<<"t", "i", "t", "l", "e">> :> JStr(<<"I", "n", "t", "e", "r", "m", "e", "d", "i", "a", "t", "e", " ", "S", "k", "i", "l", "l", "s">>)) @@
                        (<<"d", "e", "s", "c", "r", "i", "p", "t", "i", "o", "n">> :> JStr(<<"B", "u", "i", "l", "d", " ", "i", "n", "t", "e", "r", "m", "e", "d", "i", "a", "t", "e", " ", "s", "k", "i", "l", "l", "s", " ", "f", "o", "r", " ">> \o target_role)) @@
                        (<<"s", "k", "i", "l", "l", "s", "_", "c", "o", "v", "e", "r", "e", "d">> :> JArr(<<
                              JStr(<<"A", "d", "v", "a", "n", "c", "e", "d", " ", "p", "r", "o", "g", "r", "a", "m", "m", "i", "n", "g">>),
                              JStr(<<"F", "r", "a", "m", "e", "w", "o", "r", "k", " ", "b", "a", "s", "i", "c", "s">>) >>)) @@
                        (<<"e", "s", "t", "i", "m", "a", "t", "e", "d", "_", "h", "o", "u", "r", "s">> :> JNum(learning_hours \div 3)) @@
                        (<<"d", "i", "f", "f", "i", "c", "u", "l", "t", "y">> :> JStr(<<"i", "n", "t", "e", "r", "m", "e", "d", "i", "a", "t", "e">>)) @@
                        (<<"p", "r", "e", "r", "e", "q", "u", "i", "s", "i", "t", "e", "s">> :> JArr(<<
                              JStr(<<"P", "r", "o", "g", "r", "a", "m", "m", "i", "n", "g", " ", "F", "o", "u", "n", "d", "a", "t", "i", "o", "n", "s">>) >>)) @@
                        (<<"k", "e", "y", "_", "p", "r", "o", "j", "e", "c", "t", "s">> :> JArr(<<
                              JStr(<<"I", "n", "t", "e", "r", "a", "c", "t", "i", "v", "e", " ", "a", "p", "p", "l", "i", "c", "a", "t", "i", "o", "n">>) >>)) @@
                        (<<"c", "o", "m", "p", "l", "e", "t", "i", "o", "n", "_", "c", "r", "i", "t", "e", "r", "i", "a">> :> JArr(<<
                              JStr(<<"B", "u", "i", "l", "d", " ", "f", "u", "n", "c", "t", "i", "o", "n", "a", "l", " ", "a", "p", "p", "l", "i", "c", "a", "t", "i", "o", "n", "s">>) >>))),
                      JObj(
                        (<<"s", "t", "e", "p">> :> JNum(3)) @@
                        (<<"t", "i", "t", "l", "e">> :> JStr(<<"A", "d", "v", "a", "n", "c", "e", "d", " ", "C", "o", "n", "c", "e", "p", "t", "s">>)) @@
                        (<<"d", "e", "s", "c", "r", "i", "p", "t", "i", "o", "n">> :> JStr(<<"M", "a", "s", "t", "e", "r", " ", "a", "d", "v", "a", "n", "c", "e", "d", " ", "c", "o", "n", "c", "e", "p", "t", "s", " ", "f", "o", "r", " ">> \o target_role)) @@
                        (<<"s", "k", "i", "l", "l", "s", "_", "c", "o", "v", "e", "r", "e", "d">> :> JArr(<<
                              JStr(<<"P", "r", "o", "f", "e", "s", "s", "i", "o", "n", "a", "l", " ", "d", "e", "v", "e", "l", "o", "p", "m", "e", "n", "t">>),
                              JStr(<<"B", "e", "s", "t", " ", "p", "r", "a", "c", "t", "i", "c", "e", "s">>),
                              JStr(<<"R", "e", "a", "l", "-", "w", "o", "r", "l", "d", " ", "a", "p", "p", "l", "i", "c", "a", "t", "i", "o", "n">>) >>)) @@
                        (<<"e", "s", "t", "i", "m", "a", "t", "e", "d", "_", "h", "o", "u", "r", "s">> :> JNum(learning_hours \div 3)) @@
                        (<<"d", "i", "f", "f", "i", "c", "u", "l", "t", "y">> :> JStr(<<"a", "d", "v", "a", "n", "c", "e", "d">>)) @@
                        (<<"p", "r", "e", "r", "e", "q", "u", "i", "s", "i", "t", "e", "s">> :> JArr(<<
                              JStr(<<"I", "n", "t", "e", "r", "m", "e", "d", "i", "a", "t", "e", " ", "S", "k", "i", "l", "l", "s">>) >>)) @@
                        (<<"k", "e", "y", "_", "p", "r", "o", "j", "e", "c", "t", "s">> :> JArr(<<
                              JStr(<<"P", "o", "r", "t", "f", "o", "l", "i", "o", " ", "p", "r", "o", "j", "e", "c", "t">>),
                              JStr(<<"C", "a", "p", "s", "t", "o", "n", "e", " ", "a", "p", "p", "l", "i", "c", "a", "t", "i", "o", "n">>) >>)) @@
                        (<<"c", "o", "m", "p", "l", "e", "t", "i", "o", "n", "_", "c", "r", "i", "t", "e", "r", "i", "a">> :> JArr(<<
                              JStr(<<"C", "r", "e", "a", "t", "e", " ", "p", "r", "o", "f", "e", "s", "s", "i", "o", "n", "a", "l", "-", "q", "u", "a", "l", "i", "t", "y", " ", "w", "o", "r", "k">>) >>))) >>)) @@
                (<<"t", "o", "t", "a", "l", "_", "l", "e", "a", "r", "n", "i", "n", "g", "_", "h", "o", "u", "r", "s">> :> JNum(learning_hours)) @@
                (<<"b", "u", "f", "f", "e", "r", "_", "h", "o", "u", "r", "s">> :> JNum(buffer_hours)) @@
                (<<"m", "i", "l", "e", "s", "t", "o", "n", "e", "_", "p", "r", "o", "j", "e", "c", "t", "s">> :> JArr(<<
                      JObj(
                        (<<"t", "i", "t", "l", "e">> :> JStr(<<"L", "e", "a", "r", "n", "i", "n", "g", " ", "P", "o", "r", "t", "f", "o", "l", "i", "o">>)) @@
                        (<<"d", "e", "s", "c", "r", "i", "p", "t", "i", "o", "n">> :> JStr(<<"S", "h", "o", "w", "c", "a", "s", "e", " ", "y", "o", "u", "r", " ", "p", "r", "o", "g", "r", "e", "s", "s", " ", "a", "n", "d", " ", "s", "k", "i", "l", "l", "s">>)) @@
                        (<<"t", "e", "c", "h", "n", "o", "l", "o", "g", "i", "e", "s">> :> JArr(<<
                              JStr(<<"C", "o", "r", "e", " ", "t", "e", "c", "h", "n", "o", "l", "o", "g", "i", "e", "s", " ", "f", "o", "r", " ", "t", "h", "e", " ", "r", "o", "l", "e">>) >>)) @@
                        (<<"e", "s", "t", "i", "m", "a", "t", "e", "d", "_", "h", "o", "u", "r", "s">> :> JNum(IntTimes(h, 15))) @@
                        (<<"c", "o", "m", "p", "l", "e", "t", "i", "o", "n", "_", "a", "t">> :> JStr(<<"5", "0", "%", " ", "p", "r", "o", "g", "r", "e", "s", "s">>))),
                      JObj(
                        (<<"t", "i", "t", "l", "e">> :> JStr(<<"C", "a", "p", "s", "t", "o", "n", "e", " ", "P", "r", "o", "j", "e", "c", "t">>)) @@
                        (<<"d", "e", "s", "c", "r", "i", "p", "t", "i", "o", "n">> :> JStr(<<"C", "o", "m", "p", "r", "e", "h", "e", "n", "s", "i", "v", "e", " ", "p", "r", "o", "j", "e", "c", "t", " ", "d", "e", "m", "o", "n", "s", "t", "r", "a", "t", "i", "n", "g", " ", "j", "o", "b", " ", "r", "e", "a", "d", "i", "n", "e", "s", "s">>)) @@
                        (<<"t", "e", "c", "h", "n", "o", "l", "o", "g", "i", "e", "s">> :> JArr(<<
                              JStr(<<"A", "l", "l", " ", "l", "e", "a", "r", "n", "e", "d", " ", "t", "e", "c", "h", "n", "o", "l", "o", "g", "i", "e", "s">>) >>)) @@
                        (<<"e", "s", "t", "i", "m", "a", "t", "e", "d", "_", "h", "o", "u", "r", "s">> :> JNum(IntTimes(h, 25))) @@
                        (<<"c", "o", "m", "p", "l", "e", "t", "i", "o", "n", "_", "a", "t">> :> JStr(<<"9", "0", "%", " ", "p", "r", "o", "g", "r", "e", "s", "s">>))) >>)))) @@
          (<<"t", "i", "m", "e", "l", "i", "n", "e">> :> FormatTimeBreakdown(h, time_input)) @@
          (<<"r", "e", "c", "o", "m", "m", "e", "n", "d", "a", "t", "i", "o", "n", "s">> :> JArr(<<
                JObj(
                  (<<"c", "a", "t", "e", "g", "o", "r", "y">> :> JStr(<<"f", "r", "e", "e", "_", "c", "o", "u", "r", "s", "e", "s">>)) @@
                  (<<"p", "r", "i", "o", "r", "i", "t", "y">> :> JStr(<<"h", "i", "g", "h">>)) @@
                  (<<"i", "t", "e", "m", "s">> :> JArr(<<
                        JObj(
                          (<<"t", "i", "t", "l", "e">> :> JStr(target_role \o <<" ", "F", "u", "n", "d", "a", "m", "e", "n", "t", "a", "l", "s", " ", "C", "o", "u", "r", "s", "e">>)) @@
                          (<<"p", "r", "o", "v", "i", "d", "e", "r">> :> JStr(<<"f", "r", "e", "e", "C", "o", "d", "e", "C", "a", "m", "p">>)) @@
                          (<<"e", "s", "t", "i", "m", "a", "t", "e", "d", "_", "h", "o", "u", "r", "s">> :> JNum(30)) @@
                          (<<"c", "o", "s", "t">> :> JStr(<<"F", "r", "e", "e">>)) @@
                          (<<"u", "r", "l">> :> JStr(<<"h", "t", "t", "p", "s", ":", "/", "/", "f", "r", "e", "e", "c", "o", "d", "e", "c", "a", "m", "p", ".", "o", "r", "g">>)) @@
                          (<<"w", "h", "y", "_", "r", "e", "c", "o", "m", "m", "e", "n", "d", "e", "d">> :> JStr(<<"P", "e", "r", "f", "e", "c", "t", " ", "s", "t", "a", "r", "t", "i", "n", "g", " ", "p", "o", "i", "n", "t", " ", "f", "o", "r", " ">> \o experience_level \o <<" ", "l", "e", "a", "r", "n", "e", "r", "s">>))) >>))) >>)))

-----------------------------------------------------------------------------
(* POST /generate-roadmap: get_settings, get_roadmap_generator,
   generate_roadmap, generate_complete_roadmap, _safe_llm_call *)

\* max_retries of _safe_llm_call
MaxRetries == 3

\* "{}": what _safe_llm_call returns when the attempts are used up
SentinelEmptyText == <<>>

SentinelText == <<"{", "}">>

\* "for attempt in range(max_retries)"
InRange(k) == k < MaxRetries

IsFirstAttempt(k) == k = 0

\* "if attempt == max_retries - 1"
IsLastAttempt(k) == k = MaxRetries - 1

\* a delay that grows by two per attempt
BackoffLinear(k) == 2 * k + 1

\* "time.sleep(2 ** attempt)"
BackoffDelay(k) == 2 ^ k

KeyIsNone(key) == key = JNull

\* "if not settings["groq_api_key"]"
KeyMissing(key) == ~Truthy(key)

\* a write to a variable every request would share
Shared(f, r, v) == [q \in DOMAIN f |-> v]

\* a write to a local of request r's handler, dependency or generator
Own(f, r, v) == [f EXCEPT ![r] = v]

\* a call that is awaited: the event loop is given up while it is pending
Yielded(r) == r - r

\* self.llm.invoke and time.sleep are synchronous calls made inside the
\* coroutine: the event loop stays with the handler of request r until they
\* return
Blocked(r) == r

\* the value get_settings returns and the cache it leaves: os.getenv is read
\* on the first call only
GetSettings == IF settings_cache = <<>> THEN GROQ_API_KEY ELSE settings_cache[1]

\* the fields of RoadmapResponse
F_roadmap == <<"r", "o", "a", "d", "m", "a", "p">>

F_timeline == <<"t", "i", "m", "e", "l", "i", "n", "e">>

F_recommendations == <<"r", "e", "c", "o", "m", "m", "e", "n", "d", "a", "t", "i", "o", "n", "s">>

F_skill_gaps == <<"s", "k", "i", "l", "l", "_", "g", "a", "p", "s">>

F_estimated_duration == <<"e", "s", "t", "i", "m", "a", "t", "e", "d", "_", "d", "u", "r", "a", "t", "i", "o", "n">>

ResponseFields == {F_roadmap, F_timeline, F_recommendations, F_skill_gaps, F_estimated_duration}

\* the declared type of a field holds of the value x (values that a lenient
\* validator would coerce, such as an int for a str, are not drawn)
FieldOk(k, x) ==
    CASE k = F_roadmap            -> x.t = "dict"
      [] k = F_timeline           -> x.t = "dict"
      [] k = F_recommendations    -> x.t = "list" /\ \A i \in 1..Len(x.a) : x.a[i].t = "dict"
      [] k = F_skill_gaps         -> x.t = "list" /\ \A i \in 1..Len(x.a) : x.a[i].t = "str"
      [] k = F_estimated_duration -> x.t = "str"

\* RoadmapResponse(**result) is constructed: result is a mapping (else
\* TypeError) that holds the five fields with their types (else ValidationError)
Validates(result) ==
    /\ result.t = "dict"
    /\ \A k \in ResponseFields : k \in DOMAIN result.o /\ FieldOk(k, result.o[k])

\* the model constructed: the five fields, other keys ignored
RoadmapResponse(result) == JObj([k \in ResponseFields |-> result.o[k]])

\* line 1088: _parse_json_safely(response_content, {the fallback})
ExtractRoadmap(body, h, text) ==
    ParseJsonResult(text, FallbackRoadmap(h, body.total_time, body.target_role, body.experience_level))

\* a handler that sends whatever dict the generator returned as a success
RespondMinimal(body, h, text) ==
    LET j == ExtractRoadmap(body, h, text)
    IN  IF j.pc = "raised"
        THEN [roadmap |-> JNull, status |-> 500, response |-> JNull]
        ELSE IF j.result.t = "dict"
             THEN [roadmap |-> j.result, status |-> 200, response |-> j.result]
             ELSE [roadmap |-> j.result, status |-> 500, response |-> JNull]

\* the rest of generate_complete_roadmap and of generate_roadmap once
\* _safe_llm_call has returned text: the extraction, the construction of the
\* response and the except clause that turns any exception into HTTP 500
Respond(body, h, text) ==
    LET j == ExtractRoadmap(body, h, text)
    IN  IF j.pc = "raised"
        THEN [roadmap |-> JNull, status |-> 500, response |-> JNull]
        ELSE IF Validates(j.result)
             THEN [roadmap |-> j.result, status |-> 200, response |-> RoadmapResponse(j.result)]
             ELSE [roadmap |-> j.result, status |-> 500, response |-> JNull]

Body(role, level, time) == [target_role |-> role, experience_level |-> level, total_time |-> time]

\* request bodies: a total of 100 hours, a total of 0 hours with an empty
\* role, and a total the duration parser raises on
Bodies ==
    { Body(<<"D", "e", "v">>, <<"b", "e", "g", "i", "n", "n", "e", "r">>,
           <<"1", "0", "0", " ", "h", "o", "u", "r", "s">>),
      Body(<<>>, <<"a", "d", "v", "a", "n", "c", "e", "d">>,
           <<"0", " ", "f", "o", "r", "t", "n", "i", "g", "h", "t">>),
      Body(<<"Q", "A">>, <<"i", "n", "t", "e", "r", "m", "e", "d", "i", "a", "t", "e">>,
           LongDigits) }

\* a complete roadmap with one more key
ValidText ==
    <<"{", "\"", "r", "o", "a", "d", "m", "a", "p", "\"", ":", "{", "}", ",", "\"", "t", "i", "m", "e", "l", "i", "n", "e", "\"", ":", "{", "}", ",", "\"", "r", "e", "c", "o", "m", "m", "e", "n", "d", "a", "t", "i", "o", "n", "s", "\"", ":", "[", "{", "\"", "a", "\"", ":", "1", "}", "]", ",", "\"", "s", "k", "i", "l", "l", "_", "g", "a", "p", "s", "\"", ":", "[", "\"", "G", "i", "t", "\"", "]", ",", "\"", "e", "s", "t", "i", "m", "a", "t", "e", "d", "_", "d", "u", "r", "a", "t", "i", "o", "n", "\"", ":", "\"", "1", "h", "\"", ",", "\"", "x", "\"", ":", "1", "}">>

NotJsonText == <<"n", "o", "t", " ", "j", "s", "o", "n", " ", "a", "t", " ", "a", "l", "l">>

ListText == <<"[", "1", "]">>

\* a roadmap without its estimated_duration
PartialText ==
    <<"{", "\"", "r", "o", "a", "d", "m", "a", "p", "\"", ":", "{", "}", ",", "\"", "t", "i", "m", "e", "l", "i", "n", "e", "\"", ":", "{", "}", ",", "\"", "r", "e", "c", "o", "m", "m", "e", "n", "d", "a", "t", "i", "o", "n", "s", "\"", ":", "[", "{", "\"", "a", "\"", ":", "1", "}", "]", ",", "\"", "s", "k", "i", "l", "l", "_", "g", "a", "p", "s", "\"", ":", "[", "\"", "G", "i", "t", "\"", "]", "}">>

\* the contents the LLM answers with
LlmTexts == {ValidText, NotJsonText, ListText, DeepText}

\* values of the environment variable: unset, empty, set
ApiKeys == {JNull, JStr(<<>>), JStr(<<"g", "s", "k">>)}

InitServer ==
    /\ GROQ_API_KEY \in ApiKeys
    /\ settings_cache = <<>>
    /\ loop_owner = 0
    /\ request \in [Requests -> Bodies]
    /\ req_pc = [r \in Requests |-> "received"]
    /\ generator = [r \in Requests |-> FALSE]
    /\ req_hours = [r \in Requests |-> 0]
    /\ attempt = [r \in Requests |-> 0]
    /\ invocations = [r \in Requests |-> 0]
    /\ in_flight = [r \in Requests |-> 0]
    /\ slept = [r \in Requests |-> <<>>]
    /\ answers = [r \in Requests |-> <<>>]
    /\ llm_content = [r \in Requests |-> <<>>]
    /\ complete_roadmap = [r \in Requests |-> JNull]
    /\ http_status = [r \in Requests |-> 0]
    /\ response = [r \in Requests |-> JNull]
    /\ health_pc = "idle"
    /\ ParseIdle
    /\ JsonIdle
    /\ FallbackIdle

\* the dependency get_roadmap_generator of request r, run in the thread pool
\* before the handler: get_settings, the test of the key, and either the
\* HTTPException or the construction of the generator
GetRoadmapGenerator(r) ==
    /\ req_pc[r] = "received"
    /\ settings_cache' = <<GetSettings>>
    /\ IF KeyMissing(GetSettings)
       THEN /\ http_status' = Own(http_status, r, 500)
            /\ req_pc' = Own(req_pc, r, "done")
            /\ UNCHANGED generator
       ELSE /\ generator' = Own(generator, r, TRUE)
            /\ req_pc' = Own(req_pc, r, "ready")
            /\ UNCHANGED http_status
    /\ UNCHANGED <<health_pc, GROQ_API_KEY, loop_owner, request, req_hours, attempt, invocations,
                   in_flight, slept, answers, llm_content, complete_roadmap, response>>
    /\ UNCHANGED <<parse_vars, json_vars, fallback_vars>>

\* the handler generate_roadmap of request r starts on the event loop and
\* runs generate_complete_roadmap up to the call of _safe_llm_call; an
\* exception of _parse_time_input ends the request with HTTP 500
GenerateRoadmap(r) ==
    /\ req_pc[r] = "ready"
    /\ loop_owner = 0
    /\ \E p \in {ParseTimeResult(request[r].total_time)} :
          IF p.pc = "raised"
          THEN /\ http_status' = Own(http_status, r, 500)
               /\ req_pc' = Own(req_pc, r, "done")
               /\ UNCHANGED <<loop_owner, req_hours, attempt>>
          ELSE /\ req_hours' = Own(req_hours, r, p.hours)
               /\ attempt' = Own(attempt, r, 0)
               /\ req_pc' = Own(req_pc, r, "invoke")
               /\ loop_owner' = r
               /\ UNCHANGED http_status
    /\ UNCHANGED <<health_pc, GROQ_API_KEY, settings_cache, request, generator, invocations, in_flight,
                   slept, answers, llm_content, complete_roadmap, response>>
    /\ UNCHANGED <<parse_vars, json_vars, fallback_vars>>

\* self.llm.invoke([HumanMessage(content=prompt)]) is called
LlmInvoke(r) ==
    /\ req_pc[r] = "invoke"
    /\ invocations' = Own(invocations, r, invocations[r] + 1)
    /\ in_flight' = Own(in_flight, r, in_flight[r] + 1)
    /\ req_pc' = Own(req_pc, r, "waiting")
    /\ loop_owner' = Blocked(r)
    /\ UNCHANGED <<health_pc, GROQ_API_KEY, settings_cache, request, generator, req_hours,
                   attempt, slept, answers, llm_content, complete_roadmap, http_status, response>>
    /\ UNCHANGED <<parse_vars, json_vars, fallback_vars>>

\* the invocation returns a message with the content text and _safe_llm_call
\* returns it
LlmAnswer(r, text) ==
    /\ req_pc[r] = "waiting"
    /\ answers' = Own(answers, r, Append(answers[r], [ok |-> TRUE, content |-> text]))
    /\ llm_content' = Own(llm_content, r, text)
    /\ in_flight' = Own(in_flight, r, in_flight[r] - 1)
    /\ req_pc' = Own(req_pc, r, "called")
    /\ UNCHANGED <<health_pc, GROQ_API_KEY, settings_cache, loop_owner, request, generator, req_hours,
                   attempt, invocations, slept, complete_roadmap, http_status, response>>
    /\ UNCHANGED <<parse_vars, json_vars, fallback_vars>>

\* the invocation returns one of the contents of LlmTexts
LlmReturn(r) == \E text \in LlmTexts : LlmAnswer(r, text)

\* the invocation returns a roadmap that lacks a field
LlmReturnPartial(r) == LlmAnswer(r, PartialText)

\* the invocation raises an Exception: on the last attempt _safe_llm_call
\* returns "{}", otherwise time.sleep(2 ** attempt) starts
LlmRaise(r) ==
    /\ req_pc[r] = "waiting"
    /\ answers' = Own(answers, r, Append(answers[r], [ok |-> FALSE, content |-> <<>>]))
    /\ in_flight' = Own(in_flight, r, in_flight[r] - 1)
    /\ IF IsLastAttempt(attempt[r])
       THEN /\ llm_content' = Own(llm_content, r, SentinelText)
            /\ req_pc' = Own(req_pc, r, "called")
            /\ UNCHANGED <<slept, loop_owner>>
       ELSE /\ slept' = Own(slept, r, Append(slept[r], BackoffDelay(attempt[r])))
            /\ req_pc' = Own(req_pc, r, "sleeping")
            /\ loop_owner' = Blocked(r)
            /\ UNCHANGED llm_content
    /\ UNCHANGED <<health_pc, GROQ_API_KEY, settings_cache, request, generator, req_hours,
                   attempt, invocations, complete_roadmap, http_status, response>>
    /\ UNCHANGED <<parse_vars, json_vars, fallback_vars>>

\* time.sleep returns and the loop goes to its next attempt; the "return "{}""
\* after the loop is taken when the range is used up
Sleep(r) ==
    /\ req_pc[r] = "sleeping"
    /\ attempt' = Own(attempt, r, attempt[r] + 1)
    /\ IF InRange(attempt[r] + 1)
       THEN /\ req_pc' = Own(req_pc, r, "invoke")
            /\ UNCHANGED llm_content
       ELSE /\ llm_content' = Own(llm_content, r, SentinelText)
            /\ req_pc' = Own(req_pc, r, "called")
    /\ UNCHANGED <<health_pc, GROQ_API_KEY, settings_cache, loop_owner, request, generator, req_hours,
                   invocations, in_flight, slept, answers, complete_roadmap, http_status,
                   response>>
    /\ UNCHANGED <<parse_vars, json_vars, fallback_vars>>

\* _safe_llm_call has returned: the rest of generate_complete_roadmap and of
\* the handler; the response is sent and the event loop is free
SendResponse(r) ==
    /\ req_pc[r] = "called"
    /\ \E out \in {Respond(request[r], req_hours[r], llm_content[r])} :
          /\ complete_roadmap' = Own(complete_roadmap, r, out.roadmap)
          /\ http_status' = Own(http_status, r, out.status)
          /\ response' = Own(response, r, out.response)
    /\ req_pc' = Own(req_pc, r, "done")
    /\ loop_owner' = 0
    /\ UNCHANGED <<health_pc, GROQ_API_KEY, settings_cache, request, generator, req_hours, attempt,
                   invocations, in_flight, slept, answers, llm_content>>
    /\ UNCHANGED <<parse_vars, json_vars, fallback_vars>>

NextServer ==
    \E r \in Requests :
        \/ GetRoadmapGenerator(r)
        \/ GenerateRoadmap(r)
        \/ LlmInvoke(r)
        \/ LlmReturn(r)
        \/ LlmRaise(r)
        \/ Sleep(r)
        \/ SendResponse(r)

SpecServer == InitServer /\ [][NextServer]_vars

\* the bodies with a role: a total of 100 hours, and a total the duration
\* parser raises on
LoopBodies == {b \in Bodies : b.target_role # <<>>}

\* the requests, and a GET /health request that has arrived with them
InitLoop ==
    /\ GROQ_API_KEY \in ApiKeys
    /\ settings_cache = <<>>
    /\ loop_owner = 0
    /\ request \in [Requests -> LoopBodies]
    /\ req_pc = [r \in Requests |-> "received"]
    /\ generator = [r \in Requests |-> FALSE]
    /\ req_hours = [r \in Requests |-> 0]
    /\ attempt = [r \in Requests |-> 0]
    /\ invocations = [r \in Requests |-> 0]
    /\ in_flight = [r \in Requests |-> 0]
    /\ slept = [r \in Requests |-> <<>>]
    /\ answers = [r \in Requests |-> <<>>]
    /\ llm_content = [r \in Requests |-> <<>>]
    /\ complete_roadmap = [r \in Requests |-> JNull]
    /\ http_status = [r \in Requests |-> 0]
    /\ response = [r \in Requests |-> JNull]
    /\ health_pc = "pending"
    /\ ParseIdle
    /\ JsonIdle
    /\ FallbackIdle

\* the handler health_check: a coroutine without an await, run by the event
\* loop when no other handler is running on it
Health ==
    /\ health_pc = "pending"
    /\ loop_owner = 0
    /\ health_pc' = "done"
    /\ UNCHANGED <<GROQ_API_KEY, settings_cache, loop_owner, request, req_pc, generator,
                   req_hours, attempt, invocations, in_flight, slept, answers, llm_content,
                   complete_roadmap, http_status, response>>
    /\ UNCHANGED <<parse_vars, json_vars, fallback_vars>>

NextLoop ==
    \/ NextServer
    \/ \E r \in Requests : LlmReturnPartial(r)
    \/ Health

SpecLoop == InitLoop /\ [][NextLoop]_vars

-----------------------------------------------------------------------------
(* Integers of any size and binary64 products, for the arithmetic of the   *)
(* fallback on hour counts beyond 32 bits                                  *)

\* A natural number is written as the sequence of its binary digits, least
\* significant first, without leading zeros (0 is the empty sequence). The
\* sums, differences and products are computed limb by limb.

RECURSIVE NatBits(_)
NatBits(n) == IF n = 0 THEN <<>> ELSE <<n % 2>> \o NatBits(n \div 2)

\* the value of a sequence of at most 30 binary digits
RECURSIVE BitsNat(_)
BitsNat(b) == IF b = <<>> THEN 0 ELSE b[1] + 2 * BitsNat(Tail(b))

\* binary digits of a limb: sums and products of two limbs stay below 2^31
LimbBits == 15

\* the limbs of b, least significant first
Limbs(b) ==
    [i \in 1..((Len(b) + LimbBits - 1) \div LimbBits) |->
        BitsNat(SubSeq(b, LimbBits * (i - 1) + 1,
                       IF LimbBits * i < Len(b) THEN LimbBits * i ELSE Len(b)))]

\* the binary digits of a sequence of limbs, without leading zeros
LimbsToBits(l) ==
    LET b == [i \in 1..(LimbBits * Len(l)) |->
                 (l[((i - 1) \div LimbBits) + 1] \div (2 ^ ((i - 1) % LimbBits))) % 2]
    IN  IF \A i \in 1..Len(b) : b[i] = 0
        THEN <<>>
        ELSE SubSeq(b, 1, CHOOSE i \in 1..Len(b) :
                              b[i] = 1 /\ \A j \in (i + 1)..Len(b) : b[j] = 0)

\* x + y + carry, limb by limb from limb i on
RECURSIVE AddLimbs(_, _, _, _)
AddLimbs(x, y, i, carry) ==
    IF i > Len(x) /\ i > Len(y)
    THEN IF carry = 0 THEN <<>> ELSE <<carry>>
    ELSE LET xi == IF i <= Len(x) THEN x[i] ELSE 0
             yi == IF i <= Len(y) THEN y[i] ELSE 0
             s  == xi + yi + carry
         IN  <<s % (2 ^ LimbBits)>> \o AddLimbs(x, y, i + 1, s \div (2 ^ LimbBits))

\* x - y - borrow for y <= x, limb by limb from limb i on
RECURSIVE SubLimbs(_, _, _, _)
SubLimbs(x, y, i, borrow) ==
    IF i > Len(x)
    THEN <<>>
    ELSE LET yi == IF i <= Len(y) THEN y[i] ELSE 0
             s  == x[i] - yi - borrow
         IN  IF s < 0
             THEN <<s + 2 ^ LimbBits>> \o SubLimbs(x, y, i + 1, 1)
             ELSE <<s>> \o SubLimbs(x, y, i + 1, 0)

\* x * m + carry for one limb m, limb by limb from limb i on
RECURSIVE MulLimb(_, _, _, _)
MulLimb(x, m, i, carry) ==
    IF i > Len(x)
    THEN IF carry = 0 THEN <<>> ELSE <<carry>>
    ELSE LET s == x[i] * m + carry
         IN  <<s % (2 ^ LimbBits)>> \o MulLimb(x, m, i + 1, s \div (2 ^ LimbBits))

\* x * (the limbs of y from limb j on)
RECURSIVE MulLimbs(_, _, _)
MulLimbs(x, y, j) ==
    IF j > Len(y)
    THEN <<>>
    ELSE AddLimbs(MulLimb(x, y[j], 1, 0), <<0>> \o MulLimbs(x, y, j + 1), 1, 0)

\* a + b
BigAdd(a, b) == LimbsToBits(AddLimbs(Limbs(a), Limbs(b), 1, 0))

\* a * b
BigMul(a, b) == LimbsToBits(MulLimbs(Limbs(a), Limbs(b), 1))

\* a <= b
BigLeq(a, b) ==
    \/ Len(a) < Len(b)
    \/ /\ Len(a) = Len(b)
       /\ \/ a = b
          \/ \E i \in 1..Len(a) :
                /\ a[i] < b[i]
                /\ \A j \in (i + 1)..Len(a) : a[j] = b[j]

\* a * 2^k
ShiftLeft(a, k) == IF a = <<>> THEN <<>> ELSE [i \in 1..k |-> 0] \o a

\* a // 2^k
ShiftRight(a, k) == SubSeq(a, k + 1, Len(a))

\* a // d and a % d for a small d: long division by limbs, most significant
\* limb first
RECURSIVE DivMod(_, _)
DivMod(a, d) ==
    IF Len(a) <= LimbBits
    THEN [q |-> NatBits(BitsNat(a) \div d), r |-> BitsNat(a) % d]
    ELSE LET hi  == DivMod(SubSeq(a, LimbBits + 1, Len(a)), d)
             cur == hi.r * (2 ^ LimbBits) + BitsNat(SubSeq(a, 1, LimbBits))
         IN  [q |-> BigAdd(ShiftLeft(hi.q, LimbBits), NatBits(cur \div d)), r |-> cur % d]

\* int(s) of a decimal digit string: nine digits at a time
RECURSIVE DecBits(_)
DecBits(d) ==
    IF Len(d) <= 9
    THEN NatBits(DecimalValue(d))
    ELSE BigAdd(BigMul(DecBits(SubSeq(d, 1, Len(d) - 9)), NatBits(1000000000)),
                NatBits(DecimalValue(SubSeq(d, Len(d) - 8, Len(d)))))

\* binary digits of the significand of a binary64 float
MantissaBits == 53

\* the binary64 float nearest to the natural number p, ties to even, as the
\* significand bits and the power of two exp it is multiplied by
RoundFloat(p) ==
    IF Len(p) <= MantissaBits
    THEN [bits |-> p, exp |-> 0]
    ELSE LET k      == Len(p) - MantissaBits
             kept   == SubSeq(p, k + 1, Len(p))
             half   == p[k] = 1
             sticky == \E i \in 1..(k - 1) : p[i] = 1
             up     == half /\ (sticky \/ kept[1] = 1)
         IN  [bits |-> IF up THEN BigAdd(kept, <<1>>) ELSE kept, exp |-> k]

\* the float literals of the program, as significand / 2^scale:
\* 0.1 = 0x1.999999999999ap-4, 0.15 = 0x1.3333333333333p-3, 0.25 = 0x1p-2,
\* 0.75 = 0x1.8p-1
FloatLiteral ==
    [tenth    |-> [bits  |-> <<1, 0, 1, 1, 0, 0, 1, 1, 0, 0, 1, 1, 0, 0, 1, 1, 0, 0, 1, 1, 0, 0, 1, 1, 0, 0, 1, 1, 0, 0, 1, 1, 0, 0, 1, 1, 0, 0, 1, 1, 0, 0, 1, 1, 0, 0, 1, 1, 0, 0, 1, 1>>,
                   scale |-> 55],
     p15      |-> [bits  |-> <<1, 1, 0, 0, 1, 1, 0, 0, 1, 1, 0, 0, 1, 1, 0, 0, 1, 1, 0, 0, 1, 1, 0, 0, 1, 1, 0, 0, 1, 1, 0, 0, 1, 1, 0, 0, 1, 1, 0, 0, 1, 1, 0, 0, 1, 1, 0, 0, 1, 1, 0, 0, 1>>,
                   scale |-> 55],
     quarter  |-> [bits |-> <<1>>, scale |-> 2],
     p75      |-> [bits |-> <<1, 1>>, scale |-> 2]]

\* int(h * c) for an int h and a float c: h is converted to a float, the
\* product is rounded to a float, and int() truncates it
FloatTimes(h, c) ==
    LET f == RoundFloat(h)
        r == RoundFloat(BigMul(f.bits, c.bits))
        e == f.exp + r.exp - c.scale
    IN  IF e >= 0 THEN ShiftLeft(r.bits, e) ELSE ShiftRight(r.bits, 0 - e)

\* _parse_time_input(raw) for a number written without a fraction: the hour
\* count it returns, in binary digits
ParseTimeHours(raw) ==
    LET s == StrStrip(StrLower(raw))
        m == RegexSearch(s)
        \* int(value * multiplier)
        product(value, multiplier) ==
            LET r == RoundFloat(BigMul(value.bits, NatBits(multiplier)))
            IN  ShiftLeft(r.bits, value.exp + r.exp)
        \* max(10, min(hours, 2000))
        clamp(hours) ==
            IF BigLeq(hours, NatBits(MinHours))
            THEN NatBits(MinHours)
            ELSE IF BigLeq(NatBits(MaxHours), hours) THEN NatBits(MaxHours) ELSE hours
    IN  IF ~m.found
        THEN NatBits(NoMatchResult(s).hours)
        ELSE LET value == RoundFloat(DecBits(m.int))
                 unit  == IF m.unit # <<>> THEN m.unit ELSE DefaultUnit
                 k     == FirstMatch(unit)
             IN  IF k # 0
                 THEN clamp(product(value, conversions[k].multiplier))
                 ELSE ShiftLeft(value.bits, value.exp)

\* the numbers of the fallback dict and of the time breakdown for a total of
\* h hours
FallbackNumbers(h) ==
    LET buffer   == FloatTimes(h, FloatLiteral.tenth)
        learning == LimbsToBits(SubLimbs(Limbs(h), Limbs(buffer), 1, 0))
        step     == DivMod(learning, 3).q
        AtLeastOne(n) == IF BigLeq(<<1>>, n) THEN n ELSE <<1>>
    IN  [total_hours          |-> h,
         buffer_hours         |-> buffer,
         total_learning_hours |-> learning,
         estimated_hours      |-> <<step, step, step>>,
         project_hours        |-> <<FloatTimes(h, FloatLiteral.p15), FloatTimes(h, FloatLiteral.quarter)>>,
         milestones           |-> <<ShiftRight(h, 2), ShiftRight(h, 1),
                                    FloatTimes(h, FloatLiteral.p75), h>>,
         durations            |-> <<AtLeastOne(ShiftRight(h, 2)),
                                    AtLeastOne(ShiftRight(h, 1)),
                                    AtLeastOne(DivMod(h, 10).q),
                                    AtLeastOne(DivMod(h, 5).q)>>]

\* largest of the small hour counts that are all tried
MaxPlanHours == 40

\* small hour counts, followed by a unit that no key matches, by no unit, by
\* days
SmallPlanInputs ==
    {IntDigits(n) \o u : n \in 0..MaxPlanHours,
                         u \in {<<" ", "f", "o", "r", "t", "n", "i", "g", "h", "t">>, <<>>,
                                <<" ", "d", "a", "y", "s">>}}

\* hour counts around and beyond 2^52, where a float no longer holds every
\* tenth, followed by a unit that no key matches and by hours
BigPlanInputs ==
    {d \o u : d \in { <<"4", "5", "0", "3", "5", "9", "9", "6", "2", "7", "3", "7", "0", "4", "9", "5">>,
                     <<"4", "5", "0", "3", "5", "9", "9", "6", "2", "7", "3", "7", "0", "4", "9", "7">>,
                     <<"6", "7", "5", "5", "3", "9", "9", "4", "4", "1", "0", "5", "5", "7", "4", "4">>,
                     <<"7", "2", "4", "3", "8", "9", "2", "9", "3", "4", "2", "8", "8", "7", "6", "9">>,
                     <<"9", "0", "0", "7", "1", "9", "9", "2", "5", "4", "7", "4", "0", "9", "9", "3">>,
                     <<"1", "4", "3", "5", "9", "5", "7", "6", "3", "8", "5", "7", "9", "9", "3", "9", "8">>,
                     <<"3", "1", "8", "3", "9", "3", "7", "3", "9", "6", "6", "0", "8", "3", "8", "4", "8">>,
                     <<"9", "0", "0", "7", "1", "9", "9", "2", "5", "4", "7", "4", "0", "9", "9", "3", "6">>,
                     <<"1", "0", "0", "0", "0", "0", "0", "0", "0", "0", "0", "0", "0", "0", "0", "0", "0", "0", "0", "0", "0">>,
                     <<"9", "9", "9", "9", "9", "9", "9", "9", "9", "9", "9", "9", "9", "9", "9", "9", "9", "9", "9", "9", "9", "9", "9">> },
              u \in {<<" ", "f", "o", "r", "t", "n", "i", "g", "h", "t">>, <<" ", "h", "o", "u", "r", "s">>}}

\* generate_complete_roadmap is entered with total_time = fb_time_input
InitFallback ==
    /\ fb_time_input \in SmallPlanInputs \cup BigPlanInputs
    /\ fb_pc = "call"
    /\ fb_hours = <<>>
    /\ fb_numbers = <<>>
    /\ ParseIdle
    /\ JsonIdle
    /\ ServerIdle

\* total_hours = self._parse_time_input(time_input)
FallbackParse ==
    /\ fb_pc = "call"
    /\ fb_hours' = ParseTimeHours(fb_time_input)
    /\ fb_pc' = "parsed"
    /\ UNCHANGED <<fb_time_input, fb_numbers>>
    /\ UNCHANGED <<parse_vars, json_vars, server_vars>>

\* buffer_hours, learning_hours, the time breakdown and the fallback dict
FallbackBuild ==
    /\ fb_pc = "parsed"
    /\ fb_numbers' = FallbackNumbers(fb_hours)
    /\ fb_pc' = "built"
    /\ UNCHANGED <<fb_time_input, fb_hours>>
    /\ UNCHANGED <<parse_vars, json_vars, server_vars>>

NextFallback == FallbackParse \/ FallbackBuild

SpecFallback == InitFallback /\ [][NextFallback]_vars

-----------------------------------------------------------------------------
(* All the operations together *)

Init == InitParse \/ InitJson \/ InitRoundTrip \/ InitServer \/ InitLoop \/ InitFallback

Next == ParseTimeInput \/ ParseJsonSafely \/ NextLoop \/ NextFallback

Spec == Init /\ [][Next]_vars

-----------------------------------------------------------------------------
(* Properties of the duration parser *)

Called == parse_pc # "call"

\* what the regular expression finds in the normalised argument
Match == RegexSearch(StrStrip(StrLower(time_str)))

\* the unit token the loop resolves (group 2, or "hours" when it is empty)
UnitToken == IF Match.unit # <<>> THEN Match.unit ELSE DefaultUnit

NoKeyMatches == \A k \in 1..Len(conversions) : ~UnitMatches(UnitToken, conversions[k].key)

\* trunc(n * m) for the first number n of the argument, as arithmetic on the
\* decimal; a number of ten digits or more is reported as 10^9, which is above
\* every limit for every multiplier m >= 1
TruncProduct(m) ==
    IF Len(Significant(Match.int)) > 9
    THEN 1000000000
    ELSE (DecimalValue(Match.int \o Match.frac) * m) \div Pow10(Len(Match.frac))

\* C1: for every input string the returned hour count lies in [10, 2000].
C1_HoursInRange ==
    parse_pc = "returned" => (total_hours >= 10 /\ total_hours <= 2000)

ExampleHours ==
    { <<<<"1", "0", "0", " ", "h", "o", "u", "r", "s">>, 100>>,
      <<<<"2", " ", "m", "o", "n", "t", "h", "s">>, 320>>,
      <<<<"1", "0", " ", "w", "e", "e", "k", "s">>, 400>>,
      <<<<"3", "0", " ", "d", "a", "y", "s">>, 240>>,
      <<<<"1", " ", "y", "e", "a", "r">>, 1920>>,
      <<<<"2", ".", "5", " ", "w", "e", "e", "k", "s">>, 100>>,
      <<<<"2", "5", "0">>, 250>>,
      <<<<"1", " ", "h", "o", "u", "r">>, 10>>,
      <<<<"5", "0", "0", "0", " ", "h", "o", "u", "r", "s">>, 2000>> }

\* C2: when the first number n is followed by a unit that resolves to a table
\* entry with multiplier m (or by no unit, m = 1), the call returns
\* min(max(trunc(n*m), 10), 2000); the listed examples return the listed hours.
C2_ClampedProduct ==
    /\ (Called /\ Match.found /\ ~NoKeyMatches) =>
          LET m == conversions[
                     CHOOSE k \in 1..Len(conversions) :
                        /\ UnitMatches(UnitToken, conversions[k].key)
                        /\ \A j \in 1..(k-1) : ~UnitMatches(UnitToken, conversions[j].key)
                   ].multiplier
              t == TruncProduct(m)
          IN  /\ parse_pc = "returned"
              /\ total_hours = (IF t < 10 THEN 10 ELSE IF t > 2000 THEN 2000 ELSE t)
    /\ \A e \in ExampleHours :
          (Called /\ time_str = e[1]) => (parse_pc = "returned" /\ total_hours = e[2])

\* C3: the parser is total: every call returns and none raises.
C3_NeverRaises ==
    Called => (parse_pc = "returned" /\ parse_exc = "none")

\* C4: an argument without any digit yields exactly 100.
C4_NoDigitDefault ==
    (Called /\ \A i \in 1..Len(time_str) : ~IsDigit(time_str[i])) =>
        (parse_pc = "returned" /\ total_hours = 100)

C4_Witness ==
    /\ parse_pc = "returned"
    /\ time_str = <<"a", "b", "c">>
    /\ total_hours = 100

\* C5 as stated: parse("7") returns 7 through the raw-digit fallback path.
C5_SevenLiteral ==
    (Called /\ time_str = <<"7">>) =>
        (parse_pc = "returned" /\ total_hours = 7 /\ parse_path = "digits")

\* C5 amended: a bare digit string below 10, such as "7", is matched by the
\* primary pattern, its unit defaults to hours, and the clamp raises it to 10;
\* the raw-digit fallback path is not taken.
C5_SevenClamped ==
    (/\ Called
     /\ time_str # <<>>
     /\ \A i \in 1..Len(time_str) : IsDigit(time_str[i])
     /\ Len(Significant(time_str)) <= 1) =>
        (parse_pc = "returned" /\ total_hours = 10 /\ parse_path = "matched")

C5_Witness ==
    /\ parse_pc = "returned"
    /\ time_str = <<"7">>
    /\ total_hours = 10

\* C6: when a number is found and its unit token matches no table entry, the
\* call returns the number truncated to an integer, without clamping.
C6_UnmatchedUnclamped ==
    (Called /\ Match.found /\ NoKeyMatches) =>
        (/\ parse_pc = "returned"
         /\ total_hours = DecimalValue(Match.int))

KeyOrder ==
    << <<"h", "o", "u", "r">>,
       <<"h", "o", "u", "r", "s">>,
       <<"h", "r">>,
       <<"h", "r", "s">>,
       <<"h">>,
       <<"d", "a", "y">>,
       <<"d", "a", "y", "s">>,
       <<"d">>,
       <<"w", "e", "e", "k">>,
       <<"w", "e", "e", "k", "s">>,
       <<"w", "k">>,
       <<"w">>,
       <<"m", "o", "n", "t", "h">>,
       <<"m", "o", "n", "t", "h", "s">>,
       <<"m", "o">>,
       <<"m">>,
       <<"y", "e", "a", "r">>,
       <<"y", "e", "a", "r", "s">>,
       <<"y", "r">>,
       <<"y">> >>

\* C7: unit resolution walks the table in its declared order and stops at the
\* first entry whose key is a prefix of the unit token or has the unit token
\* as a prefix; the multiplier of that entry is the one used, even when a
\* later key equals the unit token.
C7_FirstMatchInOrder ==
    /\ [k \in 1..Len(conversions) |-> conversions[k].key] = KeyOrder
    /\ (Called /\ Match.found) =>
          IF NoKeyMatches
          THEN key_idx = 0 /\ parse_path = "unmatched"
          ELSE /\ parse_path = "matched"
               /\ key_idx \in 1..Len(conversions)
               /\ UnitMatches(UnitToken, conversions[key_idx].key)
               /\ \A j \in 1..(key_idx - 1) : ~UnitMatches(UnitToken, conversions[j].key)
               /\ parse_pc = "returned" =>
                     total_hours = Clamp(TruncProduct(conversions[key_idx].multiplier))

\* "100 hours": the key "hour" (first) is used although "hours" (second) is equal
C7_Witness ==
    /\ parse_pc = "returned"
    /\ time_str = <<"1", "0", "0", " ", "h", "o", "u", "r", "s">>
    /\ key_idx = 1
    /\ conversions[2].key = UnitToken

-----------------------------------------------------------------------------
(* Properties of the JSON extraction *)

JsonCalled == json_pc \in {"returned", "raised"}

\* the stripped raw text the code-block step starts from
Stripped == StrStrip(response_content)

\* {"a": 1}
ObjA1 == JObj(DictPut(<<>>, <<"a">>, JNum(1)))

\* C8: the extraction never raises, and whenever the text handed to the JSON
\* decoder cannot be parsed it returns the caller's fallback unchanged.
C8_NeverRaisesFallback ==
    JsonCalled =>
        /\ json_pc = "returned"
        /\ json_exc = "none"
        /\ (JsonLoads(json_text).st # "ok" /\ fallback # JNull) => json_result = fallback

\* C9: the returned value is a parsed object (a dict) or the whole
\* caller-supplied fallback, never another JSON value.
C9_ObjectOrFallback ==
    json_pc = "returned" => (json_result.t = "dict" \/ json_result = fallback)

FencedExamples ==
    { <<BQ, BQ, BQ, "j", "s", "o", "n", "\n", "{", "\"", "a", "\"", ":", " ", "1", "}", "\n", BQ, BQ, BQ>>,
      <<BQ, BQ, BQ, "\n", "{", "\"", "a", "\"", ":", " ", "1", "}", "\n", BQ, BQ, BQ>>,
      <<BQ, BQ, BQ, " ", "x", " ", BQ, BQ, BQ, " ", BQ, BQ, BQ, "j", "s", "o", "n", " ", "{", "\"", "a", "\"", ":", "1", "}", " ", BQ, BQ, BQ>> }

-----------------------------------------------------------------------------
(* Properties of the brace slice *)

\* well-formed single objects and the values they denote
KnownObjects ==
    { <<<<"{", "\"", "a", "\"", ":", " ", "1", "}">>, ObjA1>>,
      <<<<"{", "\"", "a", "\"", ":", "1", "}">>, ObjA1>>,
      <<<<"{", "}">>, EmptyObj>>,
      <<ShallowObjectText, Nested(RecursionLimit - 1)>>,
      <<DeepObjectText, Nested(RecursionLimit)>> }

IsBrace(c) == c \in {"{", "}"}

\* c is the text t with brace-free commentary before it (at least one
\* character) and brace-free commentary after it
Commented(c, t) ==
    \E i \in 2..Len(c) :
        /\ HasAt(c, i, t)
        /\ \A j \in 1..(i - 1) : ~IsBrace(c[j])
        /\ \A j \in (i + Len(t))..Len(c) : ~IsBrace(c[j])

\* C11: when the candidate does not start with "{" and holds both braces, the
\* text parsed is the slice from its first "{" to its last "}" inclusive; a
\* single well-formed object between brace-free commentary is returned as
\* parsed, as in the commentary example.
C11_BraceSlice ==
    JsonCalled =>
        LET c      == content
            openAt == {i \in 1..Len(c) : c[i] = "{"}
            closeAt == {i \in 1..Len(c) : c[i] = "}"}
            Least(S) == CHOOSE x \in S : \A y \in S : x <= y
            Most(S)  == CHOOSE x \in S : \A y \in S : x >= y
        IN  /\ (1 \notin openAt /\ openAt # {} /\ closeAt # {}) =>
                  json_text = SubSeq(c, Least(openAt), Most(closeAt))
            /\ \A e \in KnownObjects :
                  Commented(c, e[1]) => (json_pc = "returned" /\ json_result = e[2])

\* every part of C11 but the deepest object: the slice is taken as stated
C11_Slice ==
    JsonCalled =>
        \A e \in KnownObjects \ {<<DeepObjectText, Nested(RecursionLimit)>>} :
            Commented(content, e[1]) => (json_pc = "returned" /\ json_result = e[2])

-----------------------------------------------------------------------------
(* Properties of a fence without a closing fence *)

\* C20: when the trimmed text holds an opening fence (the first json fence,
\* or the first bare fence when there is no json fence) and no fence follows
\* it, the candidate is the whole trimmed text, and the brace slice is then
\* applied to it: the text parsed is the trimmed text itself when it starts
\* with "{" or lacks a brace, and its first "{" to last "}" otherwise.
C20_MissingClosingFence ==
    JsonCalled =>
        LET s       == Stripped
            jsonAt  == {i \in 1..Len(s) : HasAt(s, i, FenceJson)}
            fenceAt == {i \in 1..Len(s) : HasAt(s, i, Fence)}
            openAt  == {i \in 1..Len(s) : s[i] = "{"}
            closeAt == {i \in 1..Len(s) : s[i] = "}"}
            Least(S) == CHOOSE x \in S : \A y \in S : x <= y
            Most(S)  == CHOOSE x \in S : \A y \in S : x >= y
            NoClosing(open, width) == {j \in fenceAt : j >= open + width} = {}
            unclosed == \/ jsonAt # {} /\ NoClosing(Least(jsonAt), 7)
                        \/ jsonAt = {} /\ fenceAt # {} /\ NoClosing(Least(fenceAt), 3)
        IN  unclosed =>
               /\ content = s
               /\ json_text = IF 1 \notin openAt /\ openAt # {} /\ closeAt # {}
                               THEN SubSeq(s, Least(openAt), Most(closeAt))
                               ELSE s

\* a json fence that is never closed: the object after it is still found by
\* the brace slice
C20_Witness ==
    /\ json_pc = "returned"
    /\ response_content = <<BQ, BQ, BQ, "j", "s", "o", "n", " ", "{", "\"", "a", "\"", ":", "1", "}">>
    /\ content = response_content
    /\ json_text = <<"{", "\"", "a", "\"", ":", "1", "}">>
    /\ json_result = ObjA1

-----------------------------------------------------------------------------
(* Round trip through the serialiser *)

\* the serialisation and the object, for every drawn object
RoundTripPairs == {<<JsonDumps(X), X>> : X \in RoundTripObjects}

\* the string value of X's member "a" holds a fence
HoldsFence(X) ==
    /\ <<"a">> \in DOMAIN X.o
    /\ X.o[<<"a">>].t = "str"
    /\ Find(X.o[<<"a">>].s, Fence, 1) # 0

\* C12: for every well-formed single object X without braces in its string
\* values, whatever other characters (backticks) they hold, the extractor
\* applied to the serialisation of X returns X, for every fallback.
C12_RoundTrip ==
    JsonCalled =>
        \A p \in RoundTripPairs :
            response_content = p[1] => (json_pc = "returned" /\ json_result = p[2])

\* the round trip of the objects whose string values hold no fence and
\* which are nested less deep than the recursion limit
C12_RoundTripFenceFree ==
    JsonCalled =>
        \A p \in RoundTripPairs :
            (response_content = p[1] /\ ~HoldsFence(p[2]) /\ p[2] # Nested(RecursionLimit)) =>
                (json_pc = "returned" /\ json_result = p[2])

-----------------------------------------------------------------------------
(* Properties of _safe_llm_call and of the requests *)

\* the bodies the duration parser raises on
RaisingBodies == {b \in Bodies : ParseTimeResult(b.total_time).pc = "raised"}

\* the fallback generate_complete_roadmap builds for a body
FallbackOf ==
    [b \in Bodies \ RaisingBodies |->
        FallbackRoadmap(ParseTimeResult(b.total_time).hours, b.total_time,
                        b.target_role, b.experience_level)]

\* the indices of the invocations of request r that succeeded
Succeeded(r) == {i \in 1..Len(answers[r]) : answers[r][i].ok}

\* _safe_llm_call of request r has returned
CallReturned(r) == req_pc[r] \in {"called", "done"} /\ answers[r] # <<>>

\* C13: _safe_llm_call makes at most max_retries (3) invocations; an
\* invocation that succeeds is the last one and its content is what the call
\* returns; when all three invocations fail the call returns "{}"; a failed
\* invocation is followed by the sleep or by the return of the call, never by
\* an exception leaving it.
C13_SafeLlmCall ==
    \A r \in Requests :
        /\ invocations[r] <= 3
        /\ invocations[r] = Len(answers[r]) + in_flight[r]
        /\ \A i \in Succeeded(r) : i = Len(answers[r]) /\ CallReturned(r)
        /\ (CallReturned(r) /\ Succeeded(r) # {}) =>
              llm_content[r] = answers[r][Len(answers[r])].content
        /\ (Len(answers[r]) = 3 /\ Succeeded(r) = {}) =>
              (CallReturned(r) /\ llm_content[r] = <<"{", "}">>)
        /\ (answers[r] # <<>> /\ Succeeded(r) = {} /\ Len(answers[r]) < 3) =>
              req_pc[r] \in {"sleeping", "invoke", "waiting"}

\* one call returned "{}" after three failures, another the content of its
\* second invocation
C13_Witness ==
    \E r, q \in Requests :
        /\ Len(answers[r]) = 3 /\ Succeeded(r) = {}
        /\ req_pc[r] = "called" /\ llm_content[r] = <<"{", "}">>
        /\ Succeeded(q) = {2} /\ invocations[q] = 2 /\ llm_content[q] = NotJsonText

\* every attempt of request r failed and the request is answered
Outage(r) == req_pc[r] = "done" /\ answers[r] # <<>> /\ Succeeded(r) = {}

\* C14: when every LLM attempt of a request fails, generate_complete_roadmap
\* returns the empty dict and not the fallback roadmap built for the request,
\* whatever that fallback is.
C14_OutageYieldsEmpty ==
    \A r \in Requests :
        Outage(r) =>
            /\ complete_roadmap[r] = EmptyObj
            /\ complete_roadmap[r] # FallbackOf[request[r]]

C14_Witness ==
    \E r \in Requests :
        /\ Outage(r)
        /\ Len(answers[r]) = 3
        /\ request[r].total_time = <<"1", "0", "0", " ", "h", "o", "u", "r", "s">>
        /\ complete_roadmap[r] = EmptyObj

\* request r has passed the dependency and is answered
Handled(r) == generator[r] /\ req_pc[r] = "done"

\* C15 as stated: a request that reaches the generator performs exactly one
\* call of the LLM, whatever its outcome.
C15_ExactlyOneCall ==
    \A r \in Requests : Handled(r) => invocations[r] = 1

\* C15 amended: a request that reaches the generator performs at most three
\* calls of the LLM, one after the other: none when the duration parser
\* raises, otherwise one call plus one more after each failed call until a
\* call succeeds or three have failed.
C15_OneToThreeCalls ==
    \A r \in Requests :
        Handled(r) =>
            /\ invocations[r] <= 3
            /\ invocations[r] = Len(answers[r])
            /\ in_flight[r] = 0
            /\ invocations[r] = 0 <=> request[r] \in RaisingBodies
            /\ \A i \in 1..(Len(answers[r]) - 1) : ~answers[r][i].ok
            /\ (answers[r] # <<>> /\ Succeeded(r) = {}) => invocations[r] = 3

C15_Witness ==
    \E r \in Requests :
        /\ Handled(r)
        /\ invocations[r] = 3
        /\ Succeeded(r) = {3}

\* texts that cannot be parsed as JSON
UnparseableTexts == {NotJsonText, DeepText}

\* C16: when the LLM returns text that cannot be parsed as JSON, the request
\* is answered with success, and the result is the fallback built for the
\* request, holding exactly the five response fields with their declared
\* types, for every body.
C16_UnparseableYieldsFallback ==
    \A r \in Requests :
        (/\ req_pc[r] = "done"
         /\ Succeeded(r) # {}
         /\ llm_content[r] \in UnparseableTexts) =>
            /\ http_status[r] = 200
            /\ complete_roadmap[r] = FallbackOf[request[r]]
            /\ response[r].t = "dict"
            /\ DOMAIN response[r].o = ResponseFields
            /\ \A k \in ResponseFields : FieldOk(k, response[r].o[k])

\* the part of C16 that concerns text the decoder rejects
C16_RejectedYieldsFallback ==
    \A r \in Requests :
        (/\ req_pc[r] = "done"
         /\ Succeeded(r) # {}
         /\ llm_content[r] = NotJsonText) =>
            /\ http_status[r] = 200
            /\ complete_roadmap[r] = FallbackOf[request[r]]
            /\ DOMAIN response[r].o = ResponseFields
            /\ \A k \in ResponseFields : FieldOk(k, response[r].o[k])

\* C17: when the credential is unset or empty, every request is answered
\* with HTTP 500 by the dependency: no generator is constructed for it and no
\* call of the LLM is made.
C17_NoCredential ==
    (GROQ_API_KEY = JNull \/ GROQ_API_KEY = JStr(<<>>)) =>
        \A r \in Requests :
            /\ ~generator[r]
            /\ invocations[r] = 0
            /\ req_pc[r] \in {"received", "done"}
            /\ req_pc[r] = "done" => (http_status[r] = 500 /\ response[r] = JNull)

C17_Witness ==
    /\ GROQ_API_KEY = JStr(<<>>)
    /\ \A r \in Requests : req_pc[r] = "done" /\ http_status[r] = 500 /\ ~generator[r]

\* what a request with body b is answered when its call of the LLM returned
\* the text t: the sequential composition of the parser, the extraction and
\* the response model
AnswerTable ==
    [b \in Bodies \ RaisingBodies, t \in LlmTexts \cup {<<"{", "}">>} |->
        LET out == Respond(b, ParseTimeResult(b.total_time).hours, t)
        IN  <<out.status, out.response>>]

\* what a request with this body is answered, the credential being key and
\* ans being how its own calls of the LLM ended
ExpectedAnswer(body, key, ans) ==
    IF key = JNull \/ key = JStr(<<>>) THEN <<500, JNull>>
    ELSE IF body \in RaisingBodies THEN <<500, JNull>>
    ELSE IF ans = <<>> THEN <<0, JNull>>
    ELSE AnswerTable[body, IF ans[Len(ans)].ok THEN ans[Len(ans)].content ELSE <<"{", "}">>]

\* C18: under every interleaving, the answer to a request is the one its own
\* body, the credential and the answers to its own LLM calls determine, and
\* what the handling of a request has written so far is what its own steps
\* wrote: a request that has taken no step holds no value.
C18_Isolated ==
    \A r \in Requests :
        /\ req_pc[r] = "done" =>
              <<http_status[r], response[r]>> = ExpectedAnswer(request[r], GROQ_API_KEY, answers[r])
        /\ req_pc[r] = "received" =>
              /\ ~generator[r] /\ req_hours[r] = 0 /\ attempt[r] = 0 /\ invocations[r] = 0
              /\ slept[r] = <<>> /\ answers[r] = <<>> /\ llm_content[r] = <<>>
              /\ complete_roadmap[r] = JNull /\ http_status[r] = 0 /\ response[r] = JNull
        /\ settings_cache \in {<<>>, <<GROQ_API_KEY>>}

\* two requests with the same body, handled one while the other waited, are
\* answered differently because their LLM calls ended differently
C18_Witness ==
    \E r, q \in Requests :
        /\ r # q
        /\ request[r] = request[q]
        /\ req_pc[r] = "done" /\ req_pc[q] = "done"
        /\ http_status[r] = 200 /\ http_status[q] = 500
        /\ Len(answers[r]) = 1 /\ Len(answers[q]) = 3

\* C19: the attempts of a call follow one another: attempt k+1 (counted from
\* 0) is made only after attempts 0..k failed and the sleeps 2^0, ..., 2^k were
\* taken, one sleep after each failed attempt but the last (the third); at
\* most one invocation is in flight.
C19_SequentialBackoff ==
    \A r \in Requests :
        /\ in_flight[r] \in {0, 1}
        /\ in_flight[r] = 1 <=> req_pc[r] = "waiting"
        /\ slept[r] = [k \in 1..Len(slept[r]) |-> 2 ^ (k - 1)]
        /\ Len(slept[r]) <= 2
        /\ req_pc[r] \in {"invoke", "waiting"} =>
              /\ Len(answers[r]) = attempt[r]
              /\ Succeeded(r) = {}
              /\ Len(slept[r]) = attempt[r]
              /\ invocations[r] = attempt[r] + in_flight[r]
        /\ req_pc[r] = "sleeping" =>
              /\ Len(answers[r]) = attempt[r] + 1
              /\ Succeeded(r) = {}
              /\ Len(slept[r]) = attempt[r] + 1
        /\ (CallReturned(r) /\ Succeeded(r) = {}) => slept[r] = <<1, 2>>
        /\ CallReturned(r) => Len(slept[r]) = Len(answers[r]) - 1

\* the third attempt is in flight after the sleeps of 1 and 2 seconds
C19_Witness ==
    \E r \in Requests :
        /\ req_pc[r] = "waiting"
        /\ attempt[r] = 2
        /\ in_flight[r] = 1
        /\ slept[r] = <<1, 2>>

-----------------------------------------------------------------------------
(* Further properties of the duration parser *)

\* the outcome of the call, as the record ParseTimeResult builds
Outcome ==
    [pc |-> parse_pc, hours |-> total_hours, exc |-> parse_exc,
     path |-> parse_path, idx |-> key_idx]

\* C21: a leading minus sign is ignored: the call on "-" followed by any text
\* (a number and a unit in particular) has the outcome of the call on that
\* text, and no call returns a negative number of hours.
C21_MinusIgnored ==
    /\ (Called /\ time_str # <<>> /\ time_str[1] = "-") =>
          Outcome = ParseTimeResult(Tail(time_str))
    /\ parse_pc = "returned" => total_hours >= 0

\* "-5 hours" returns the 10 hours "5 hours" returns
C21_Witness ==
    /\ parse_pc = "returned"
    /\ time_str = <<"-", "5", " ", "h", "o", "u", "r", "s">>
    /\ total_hours = 10
    /\ Outcome = ParseTimeResult(<<"5", " ", "h", "o", "u", "r", "s">>)

HasDigit == \E i \in 1..Len(time_str) : IsDigit(time_str[i])

AllDigits == time_str # <<>> /\ \A i \in 1..Len(time_str) : IsDigit(time_str[i])

\* C22: the raw-digit branch ("return int(numbers[0])") is never taken: an
\* argument that holds a digit is matched by the primary pattern and goes
\* through unit resolution, and a bare number is resolved as hours and clamped.
C22_DigitsBranchUnreachable ==
    Called =>
        /\ parse_path # "digits"
        /\ HasDigit => (Match.found /\ parse_path \in {"matched", "unmatched"})
        /\ AllDigits =>
              /\ parse_path = "matched"
              /\ conversions[key_idx].multiplier = 1
              /\ parse_pc = "returned" => total_hours = Clamp(TruncProduct(1))

\* "250" is matched, resolved as hours and returned as 250
C22_Witness ==
    /\ parse_pc = "returned"
    /\ time_str = <<"2", "5", "0">>
    /\ parse_path = "matched"
    /\ total_hours = 250

\* the multiplier the claim gives for the first letter of a unit token, 0 for
\* a letter that starts no key
FirstLetterMultiplier(c) ==
    CASE c = "h" -> 1
      [] c = "d" -> 8
      [] c = "w" -> 40
      [] c = "m" -> 160
      [] c = "y" -> 1920
      [] OTHER -> 0

\* C23: the multiplier depends only on the first letter of the unit token:
\* h, d, w, m, y give 1, 8, 40, 160, 1920 whatever letters follow, any other
\* first letter is unrecognized, and every key that is compatible with the
\* token carries that multiplier, so that no iteration order of the table
\* gives another result.
C23_FirstLetterDecides ==
    Called =>
        LET mt    == Match
            token == IF mt.unit # <<>> THEN mt.unit ELSE DefaultUnit
            m     == FirstLetterMultiplier(token[1])
            fits  == {k \in 1..Len(conversions) : UnitMatches(token, conversions[k].key)}
            trunc == IF Len(Significant(mt.int)) > 9
                     THEN 1000000000
                     ELSE (DecimalValue(mt.int \o mt.frac) * m) \div Pow10(Len(mt.frac))
        IN  mt.found =>
                IF m # 0
                THEN /\ parse_path = "matched"
                     /\ key_idx \in fits
                     /\ \A k \in fits : conversions[k].multiplier = m
                     /\ parse_pc = "returned" => total_hours = Clamp(trunc)
                ELSE /\ parse_path = "unmatched"
                     /\ fits = {}

\* "30 minutes" is converted at 160 hours per unit (4800, clamped to 2000)
C23_Witness ==
    /\ parse_pc = "returned"
    /\ time_str = <<"3", "0", " ", "m", "i", "n", "u", "t", "e", "s">>
    /\ conversions[key_idx].multiplier = 160
    /\ total_hours = 2000

-----------------------------------------------------------------------------
(* Properties of the brace slice on a candidate that starts with "{" *)

\* the candidate holds a character that is not whitespace at or after index i
TextFrom(c, i) == \E j \in i..Len(c) : ~IsSpace(c[j])

\* the candidate starts with the text t, and trailing text follows it
Trailed(c, t) == StartsWith(c, t) /\ TextFrom(c, Len(t) + 1)

\* the candidate is the text t between commentary without "{" (at least one
\* character) and trailing text
Wrapped(c, t) ==
    \E i \in 2..Len(c) :
        /\ HasAt(c, i, t)
        /\ \A j \in 1..(i - 1) : c[j] # "{"
        /\ TextFrom(c, i + Len(t))

\* as Wrapped, the trailing text holding no "}"
WrappedPlain(c, t) ==
    \E i \in 2..Len(c) :
        /\ HasAt(c, i, t)
        /\ \A j \in 1..(i - 1) : c[j] # "{"
        /\ TextFrom(c, i + Len(t))
        /\ \A j \in (i + Len(t))..Len(c) : c[j] # "}"

\* C24: a candidate that starts with "{" is parsed as it is; when it is a
\* well-formed object followed by trailing text it fails to parse and the
\* fallback is returned, while the same object after leading commentary and
\* before trailing text is returned as parsed.
C24_SliceOnlyWithoutLeadingBrace ==
    JsonCalled =>
        /\ StartsWith(content, <<"{">>) => json_text = content
        /\ \A e \in KnownObjects :
              /\ Trailed(content, e[1]) =>
                    (json_pc = "returned" /\ json_result = FallbackOrEmpty(fallback))
              /\ Wrapped(content, e[1]) =>
                    (json_pc = "returned" /\ json_result = e[2])

\* what holds of C24: for an object nested less deep than the recursion
\* limit, and trailing text without "}" in the commented case
C24_Asymmetry ==
    JsonCalled =>
        /\ StartsWith(content, <<"{">>) => json_text = content
        /\ \A e \in KnownObjects \ {<<DeepObjectText, Nested(RecursionLimit)>>} :
              /\ Trailed(content, e[1]) =>
                    (json_pc = "returned" /\ json_result = FallbackOrEmpty(fallback))
              /\ WrappedPlain(content, e[1]) =>
                    (json_pc = "returned" /\ json_result = e[2])

-----------------------------------------------------------------------------
(* Properties of the outcome of a request *)

\* the last LLM invocation of request r returned one of the texts T
AnsweredWith(r, T) ==
    /\ answers[r] # <<>>
    /\ answers[r][Len(answers[r])].ok
    /\ llm_content[r] \in T

C25_PartialWitness ==
    \E r \in Requests :
        Handled(r) /\ AnsweredWith(r, {PartialText}) /\ http_status[r] = 500

-----------------------------------------------------------------------------
(* Properties of the event loop *)

\* the handler of request r is inside generate_complete_roadmap
InGenerator(r) == req_pc[r] \in {"invoke", "waiting", "sleeping", "called"}

\* what the handler of request q has written
HandlerState(q) ==
    <<req_pc[q], req_hours[q], attempt[q], invocations[q], in_flight[q], slept[q],
      answers[q], llm_content[q], complete_roadmap[q], http_status[q], response[q]>>

\* C26: from the step that starts the generator of a request to the step
\* that returns from it, every LLM attempt and every sleep included, no
\* other handler on the event loop takes a step: not the handler of another
\* request, whose state stays as it is once its dependency has run, and not
\* health_check; at most one request is inside the generator.
C26_NoSuspension ==
    [][ \A r \in Requests :
            InGenerator(r) =>
                /\ health_pc' = health_pc
                /\ \A q \in Requests \ {r} :
                      /\ ~InGenerator(q)'
                      /\ req_pc[q] # "received" => HandlerState(q)' = HandlerState(q) ]_vars

\* the same as a property of states: the request inside the generator holds
\* the event loop, alone
C26_OneAtATime ==
    \A r \in Requests :
        InGenerator(r) =>
            /\ loop_owner = r
            /\ \A q \in Requests \ {r} : ~InGenerator(q)

\* a request sleeps between two attempts while another request, whose
\* dependency has run, and the health request wait for the event loop
C26_Witness ==
    \E r, q \in Requests :
        /\ req_pc[r] = "sleeping" /\ slept[r] = <<1, 2>>
        /\ req_pc[q] = "ready"
        /\ health_pc = "pending"

-----------------------------------------------------------------------------
(* Properties of the numbers of the fallback roadmap *)

Built == fb_pc = "built"

\* the sum of the estimated hours of the three learning steps
StepSum(p) == BigAdd(BigAdd(p.estimated_hours[1], p.estimated_hours[2]), p.estimated_hours[3])

\* buffer_hours is the tenth of total_hours, rounded down
BufferIsTenth(p) == p.buffer_hours = DivMod(p.total_hours, 10).q

\* the other relations between the numbers: the split of the total, the
\* steps, the milestones and the scheduling durations
SplitConsistent(p) ==
    /\ BigAdd(p.total_learning_hours, p.buffer_hours) = p.total_hours
    /\ BigLeq(StepSum(p), p.total_learning_hours)
    /\ \A i \in 1..3 : BigLeq(p.milestones[i], p.milestones[i + 1])
    /\ p.milestones[4] = p.total_hours
    /\ \A i \in 1..4 : BigLeq(<<1>>, p.durations[i])

\* C27: for every total_hours >= 0 the parser returns, the fallback roadmap has
\* buffer_hours = floor(total_hours / 10), total_learning_hours + buffer_hours
\* = total_hours, three step estimates that sum to at most
\* total_learning_hours, milestones that do not decrease and end at
\* total_hours, and scheduling durations of at least 1.
C27_FallbackConsistent ==
    Built => (BufferIsTenth(fb_numbers) /\ SplitConsistent(fb_numbers))

\* every relation but the tenth holds for every hour count
C27_SplitConsistent == Built => SplitConsistent(fb_numbers)

\* the tenth is exact for every hour count below 2^52, so for every count
\* within the limits [10, 2000]
C27_TenthBelowFloatLimit ==
    (Built /\ Len(fb_hours) < MantissaBits) => BufferIsTenth(fb_numbers)

\* an hour count beyond the limits, returned when no key matches the unit,
\* whose buffer is not its tenth
C27_InexactTenth ==
    /\ Built
    /\ ~BigLeq(fb_hours, NatBits(MaxHours))
    /\ ~BufferIsTenth(fb_numbers)

\* on hour counts that fit an integer of the other sections, the numbers are
\* those of FallbackRoadmap and FormatTimeBreakdown
C27_AgreesOnSmallHours ==
    (Built /\ Len(fb_hours) <= 20) =>
        LET h == BitsNat(fb_hours)
        IN  /\ BitsNat(fb_numbers.buffer_hours) = IntTimes(h, 10)
            /\ BitsNat(fb_numbers.total_learning_hours) = h - IntTimes(h, 10)
            /\ BitsNat(fb_numbers.estimated_hours[1]) = (h - IntTimes(h, 10)) \div 3
            /\ BitsNat(fb_numbers.project_hours[1]) = IntTimes(h, 15)
            /\ BitsNat(fb_numbers.project_hours[2]) = IntTimes(h, 25)
            /\ BitsNat(fb_numbers.milestones[3]) = IntTimes(h, 75)
            /\ BitsNat(fb_numbers.durations[3]) = Max(1, h \div 10)
            /\ BitsNat(fb_numbers.durations[4]) = Max(1, h \div 5)

\* the parser of this section returns what ParseTimeResult returns
C27_SameParser ==
    (fb_pc = "parsed" /\ fb_time_input \in SmallPlanInputs) =>
        BitsNat(fb_hours) = ParseTimeResult(fb_time_input).hours

====
